---- MODULE Spec2Model ----
(***************************************************************************)
(* Model of the per-region push / delete pipeline of pubtools-ami:         *)
(*   src/src/pubtools/_ami/tasks/push.py   (AmiPush, executor-retried)     *)
(*   src/pubtools/_ami/tasks/delete.py     (AmiDelete)                     *)
(*   src/pubtools/_ami/tasks/base.py       (AmiBase)                       *)
(*   src/pubtools/_ami/rhsm.py             (RHSMClient.list_image_ids)     *)
(*   src/pubtools/_ami/tasks/push.py       (AmiPush, worker-retried)       *)
(* The main thread runs run(); every region batch is a task of a retrying  *)
(* thread pool and advances one work unit per step.                        *)
(***************************************************************************)
EXTENDS Integers, Sequences, FiniteSets, TLC

VARIABLES
    task,           \* "push" | "delete" | "legacy": which entry point runs
    args,           \* parsed command line (self.args)
    rhsm,           \* what the metadata service holds: products and image pages
    aws,            \* AWSPublishService: the cached factory, the handles built
    rhsm_products,  \* self._rhsm_products and the product listings requested
    listed,         \* the paged listing of image ids: requests sent, ids found
    source_items,   \* the push items the source yielded
    ami_push_items, \* self.ami_push_items (delete replaces it through --limit)
    checked,        \* names of the items the pre-flight check looked up
    rhsm_calls,     \* metadata-service writes issued by the main thread (delete)
    pc,             \* position of the main thread inside run()
    region_data,    \* the batches: a sequence of sequences of dest_data dicts
    fut,            \* per batch: the retrying future and its worker's locals
    calls,          \* per batch: the cloud operations invoked, in order
    last,           \* the latest upload: its batch and unit, its external calls
    nxt,            \* index of the future the push run waits for
    consumed,       \* futures whose outcome the main thread has taken
    result,         \* the aggregated result list
    failed,         \* the failure flag of run() / do_delete()
    collector,      \* what was handed to the reporting sink
    exit_code       \* argument of sys.exit, meaningful once pc = "exited"

vars == << task, args, rhsm, listed, source_items, ami_push_items, checked, rhsm_calls,
           pc, region_data, fut, calls, last, nxt, consumed, result, failed,
           collector, exit_code, aws, rhsm_products >>

----------------------------------------------------------------------------
(* Bounds of the model *)

MaxItems == 2       \* push items yielded by the source
MaxUnits == 3       \* work units (item, destination) over all items
MaxRetries == 2     \* largest --max-retries value tried
MaxPages == 3       \* pages of the image listing ahead of its closing page
MaxProducts == 3    \* products in the list the metadata service returns
MaxCalls == 2       \* requests made through one metadata-service client

(* Program constants *)

DefaultRequestThreads == 5
ExitFailure == 30
PageLimit == 1000
LegacyDefaultRetries == 4

None == "None"

----------------------------------------------------------------------------
(* Small helpers *)

Range(s) == { s[i] : i \in DOMAIN s }

Min(a, b) == IF a < b THEN a ELSE b

Get(d, k, default) == IF k \in DOMAIN d THEN d[k] ELSE default

Truthy(v) == v # None /\ v # ""

----------------------------------------------------------------------------
(* Inputs: the push items a source can yield and the metadata service *)

Upper(t) ==
    CASE t = "hourly" -> "HOURLY"
      [] t = "Hourly" -> "HOURLY"
      [] t = "access" -> "ACCESS"
      [] OTHER -> t

ItemPool ==
    << [ name |-> "ami-01", region |-> "region-1", dest |-> 2,
         image_id |-> "ami-a", product |-> "RHEL", type |-> "hourly",
         public_image |-> None, state |-> "PENDING" ],
       [ name |-> "ami-02", region |-> "region-1", dest |-> 1,
         image_id |-> "ami-b", product |-> "RHEL", type |-> "access",
         public_image |-> "True", state |-> "PENDING" ],
       [ name |-> "ami-03", region |-> "region-2", dest |-> 1,
         image_id |-> "ami-c", product |-> "SAP", type |-> "hourly",
         public_image |-> "False", state |-> "PENDING" ],
       [ name |-> "ami-04", region |-> "region-2", dest |-> 0,
         image_id |-> "ami-d", product |-> "RHEL", type |-> "access",
         public_image |-> None, state |-> "PENDING" ] >>

Weight(i) == IF ItemPool[i].dest = 0 THEN 1 ELSE ItemPool[i].dest

RECURSIVE SumWeight(_)
SumWeight(ix) == IF ix = << >> THEN 0 ELSE Weight(Head(ix)) + SumWeight(Tail(ix))

\* item lists: at most MaxItems different pool items in pool order, or one
\* pool item twice; at most MaxUnits units
IndexLists ==
    { ix \in UNION { [1..n -> DOMAIN ItemPool] : n \in 1..MaxItems } :
        /\ \/ \A i \in 1..(Len(ix) - 1) : ix[i] < ix[i + 1]
           \/ Len(ix) = 2 /\ ix[1] = ix[2]
        /\ SumWeight(ix) <= MaxUnits }

ItemLists == { [i \in DOMAIN ix |-> ItemPool[ix[i]]] : ix \in IndexLists }

\* a source of staged images yields items that have no image id yet
Staged(items) == [i \in DOMAIN items |-> [items[i] EXCEPT !.image_id = None]]

AllProducts ==
    << [name |-> "RHEL", providerShortName |-> "AWS"],
       [name |-> "RHEL_HOURLY", providerShortName |-> "AWS"],
       [name |-> "SAP_HOURLY", providerShortName |-> "AWS"] >>

SomeProducts ==
    << [name |-> "RHEL_HOURLY", providerShortName |-> "ACN"],
       [name |-> "RHEL_HOURLY", providerShortName |-> "AWS"],
       [name |-> "SAP", providerShortName |-> "AWS"] >>

\* one page of the image listing: the count it reports and the ids of its body
Page(count, body) == [count |-> count, body |-> body]

\* the metadata service: its product list and the pages of its image listing,
\* in the order it serves them
PushRhsm ==
    { [products |-> AllProducts, pages |-> << >>],
      [products |-> SomeProducts, pages |-> << >>] }

DeleteRhsm ==
    { [products |-> AllProducts,
       pages |-> << Page(2, << "ami-a", "ami-b" >>), Page(1, << "ami-x" >>),
                    Page(0, << >>) >>],
      [products |-> SomeProducts,
       pages |-> << Page(3, << "ami-a", "ami-c", "ami-d" >>),
                    Page(0, << "ami-z" >>), Page(1, << "ami-b" >>) >>] }

ThreadChoices == { DefaultRequestThreads }

\* --accounts as given to every push: a mapping with the key "default"
DefaultAccounts == { "default" }

PushArgs ==
    { [ max_retries |-> r, ship |-> s, allow_public_images |-> p,
        dry_run |-> FALSE, keep_snapshot |-> FALSE, limit |-> {},
        aws_provider_name |-> "AWS", request_threads |-> t,
        accounts |-> DefaultAccounts ] :
        r \in 0..MaxRetries, s \in BOOLEAN, p \in BOOLEAN, t \in ThreadChoices }

DeleteArgs ==
    { [ max_retries |-> r, ship |-> FALSE, allow_public_images |-> FALSE,
        dry_run |-> m[1], keep_snapshot |-> m[2], limit |-> l,
        aws_provider_name |-> "AWS", request_threads |-> t ] :
        r \in 0..MaxRetries,
        m \in { << FALSE, FALSE >>, << FALSE, TRUE >>, << TRUE, FALSE >> },
        l \in { {}, {"ami-a", "ami-c"} }, t \in ThreadChoices }

----------------------------------------------------------------------------
(* AmiBase: product lookup, partitioning, result collection *)

\* a mutant of ToRhsmProduct: the provider of a product is not compared
ToRhsmProduct_AnyProvider(products, provider, product, image_type) ==
    LET looked == IF Upper(image_type) = "HOURLY"
                  THEN product \o "_" \o Upper(image_type)
                  ELSE product
        hits == { i \in DOMAIN products : products[i].name = looked }
    IN  IF hits = {} THEN [found |-> FALSE, looked |-> looked]
        ELSE [found |-> TRUE, looked |-> looked,
              product |-> products[CHOOSE i \in hits : \A j \in hits : i <= j]]

\* to_rhsm_product: the first cached product matching name and provider;
\* found = FALSE where the code raises MissingProductError
ToRhsmProduct(products, provider, product, image_type) ==
    LET looked == IF Upper(image_type) = "HOURLY"
                  THEN product \o "_" \o Upper(image_type)
                  ELSE product
        hits == { i \in DOMAIN products :
                    /\ products[i].name = looked
                    /\ products[i].providerShortName = provider }
    IN  IF hits = {} THEN [found |-> FALSE, looked |-> looked]
        ELSE [found |-> TRUE, looked |-> looked,
              product |-> products[CHOOSE i \in hits : \A j \in hits : i <= j]]

\* in_rhsm: False where to_rhsm_product raised MissingProductError
InRhsm(products, provider, product, image_type) ==
    ToRhsmProduct(products, provider, product, image_type).found

\* a mutant of PreflightLoop: the check returns at the first missing product
RECURSIVE PreflightLoop_FirstMiss(_, _, _, _, _)
PreflightLoop_FirstMiss(items, i, verified, log, env) ==
    IF i > Len(items) \/ ~verified THEN [verified |-> verified, checked |-> log]
    ELSE LET ok == InRhsm(env.products, env.provider,
                          items[i].product, items[i].type)
         IN  PreflightLoop_FirstMiss(items, i + 1, verified /\ ok,
                                     Append(log, items[i].name), env)

\* items_in_metadata_service: looks every item up, remembers a miss, goes on
RECURSIVE PreflightLoop(_, _, _, _, _)
PreflightLoop(items, i, verified, log, env) ==
    IF i > Len(items) THEN [verified |-> verified, checked |-> log]
    ELSE LET ok == InRhsm(env.products, env.provider,
                          items[i].product, items[i].type)
         IN  PreflightLoop(items, i + 1, verified /\ ok,
                           Append(log, items[i].name), env)

ItemsInMetadataService(items, env) == PreflightLoop(items, 1, TRUE, << >>, env)

\* attr.evolve(item, state=...): a new item; the item given is left as it is
Evolve(item, state) == [item EXCEPT !.state = state]

\* a mutant of AfterPreflight: the item marked INVALIDFILE replaces the item
\* of the list
AfterPreflight_Stored(items, env) ==
    [i \in DOMAIN items |->
       IF InRhsm(env.products, env.provider, items[i].product, items[i].type)
       THEN items[i]
       ELSE Evolve(items[i], "INVALIDFILE")]

\* self.ami_push_items after items_in_metadata_service: the value of
\* attr.evolve(item, state="INVALIDFILE") is dropped, the list is as before
AfterPreflight(items, env) ==
    [i \in DOMAIN items |->
       IF InRhsm(env.products, env.provider, items[i].product, items[i].type)
       THEN items[i]
       ELSE items[i]]

\* a mutant of Copies: one dict per item, whatever its destinations
Copies_Once(item, n) == << [push_item |-> item] >>

RECURSIVE Copies(_, _)
Copies(item, n) ==
    IF n = 0 THEN << >> ELSE << [push_item |-> item] >> \o Copies(item, n - 1)

\* the keys (item, region) of the dict, in insertion order
RECURSIVE RegionKeys(_, _)
RegionKeys(items, seen) ==
    IF items = << >> THEN seen
    ELSE LET it == Head(items)
         IN  IF it.dest = 0 \/ it \in Range(seen)
             THEN RegionKeys(Tail(items), seen)
             ELSE RegionKeys(Tail(items), Append(seen, it))

RECURSIVE BatchOfKey(_, _)
BatchOfKey(key, items) ==
    IF items = << >> THEN << >>
    ELSE (IF Head(items) = key THEN Copies(key, key.dest) ELSE << >>)
         \o BatchOfKey(key, Tail(items))

\* region_data: one batch per distinct (item, region), one dict per destination
RegionData(items) ==
    LET keys == RegionKeys(items, << >>)
    IN  [k \in DOMAIN keys |-> BatchOfKey(keys[k], items)]

\* the attributes of a push item that can hold None
Nullable == { "image_id", "public_image" }

\* a mutant of StripNone: keys that hold None are kept
StripNone_Keep(d) == d

\* attr.asdict(push_item) without the keys whose value is None
StripNone(d) ==
    [k \in { k \in DOMAIN d : ~(k \in Nullable /\ d[k] = None) } |-> d[k]]

\* RESULT_KEY_MAPPING applied to one result dict
MappedKeys(res) ==
    LET m == [ami |-> "image_id", name |-> "image_name", snapshot_id |-> "snapshot_id"]
        present == { k \in DOMAIN m : m[k] \in DOMAIN res }
    IN  [k \in present |-> res[m[k]]]

\* collect_push_result: what the sink receives
CollectPushResult(results) ==
    [ attached |-> TRUE,
      images_json |->
        [i \in DOMAIN results |->
            MappedKeys(results[i]) @@ StripNone(results[i].push_item)],
      push_items |->
        [i \in DOMAIN results |->
            [filename |-> results[i].push_item.image_id,
             state |-> results[i].push_item.state]] ]

NothingCollected == [attached |-> FALSE, images_json |-> << >>, push_items |-> << >>]

----------------------------------------------------------------------------
(* AmiPush.upload and AmiPush.update_rhsm_metadata *)

\* the answers of the cloud and of the metadata service to one upload
Ext == [ publish : BOOLEAN, create_region : BOOLEAN, update_image : BOOLEAN,
         create_image : BOOLEAN, publish_all : BOOLEAN ]

PublishedImageId == "ami-1234567"

\* one external call: the operation, the image id and region it names, the
\* access groups it asks for, and whether it was answered ok
Call(op, image_id, region, groups, ok) ==
    [op |-> op, image_id |-> image_id, region |-> region, groups |-> groups,
     ok |-> ok]

\* a mutant of UpdateRhsmMetadata: a failed create_image is only logged
UpdateRhsmMetadata_NoRaise(item, ext, env) ==
    LET region == Call("create_region", None, item.region, {}, ext.create_region)
        update == Call("update_image", PublishedImageId, None, {}, ext.update_image)
        create == Call("create_image", PublishedImageId, item.region, {},
                       ext.create_image)
    IN  IF ~ext.create_region
        THEN [trace |-> << region >>, exc |-> "HTTPError"]
        ELSE IF ~InRhsm(env.products, env.provider, item.product, item.type)
        THEN [trace |-> << region >>, exc |-> "MissingProductError"]
        ELSE IF ext.update_image
        THEN [trace |-> << region, update >>, exc |-> "none"]
        ELSE [trace |-> << region, update, create >>, exc |-> "none"]

\* update_rhsm_metadata(image, push_item): the calls made and the exception
UpdateRhsmMetadata(item, ext, env) ==
    LET region == Call("create_region", None, item.region, {}, ext.create_region)
        update == Call("update_image", PublishedImageId, None, {}, ext.update_image)
        create == Call("create_image", PublishedImageId, item.region, {},
                       ext.create_image)
    IN  IF ~ext.create_region
        THEN [trace |-> << region >>, exc |-> "HTTPError"]
        ELSE IF ~InRhsm(env.products, env.provider, item.product, item.type)
        THEN [trace |-> << region >>, exc |-> "MissingProductError"]
        ELSE IF ext.update_image
        THEN [trace |-> << region, update >>, exc |-> "none"]
        ELSE [trace |-> << region, update, create >>,
              exc |-> IF ext.create_image THEN "none" ELSE "HTTPError"]

\* a mutant of IsPublic: every hourly image is public, whatever its flag
IsPublic_Hourly(item) ==
    \/ item.public_image = "True"
    \/ item.type = "hourly"

\* public_image, with the fallback for items that carry no flag
IsPublic(item) ==
    \/ item.public_image = "True"
    \/ item.public_image = None /\ item.type = "hourly"

\* _accounts[region] or _accounts["default"] exists; KeyError otherwise
HasAccounts(a, region) == region \in a.accounts \/ "default" \in a.accounts

\* a mutant of Upload: the metadata sync is made ahead of the cloud publish
Upload_SyncFirst(item, ext, a, env) ==
    LET publish == Call("publish", None, item.region, {}, ext.publish)
        widen == Call("publish", None, item.region, {"all"}, ext.publish_all)
        sync == IF a.ship THEN UpdateRhsmMetadata(item, ext, env)
                ELSE [trace |-> << >>, exc |-> "none"]
    IN  IF ~HasAccounts(a, item.region)
        THEN [trace |-> << >>, exc |-> "KeyError", image_id |-> None]
        ELSE IF sync.exc # "none"
        THEN [trace |-> sync.trace, exc |-> sync.exc, image_id |-> None]
        ELSE IF ~ext.publish
        THEN [trace |-> sync.trace \o << publish >>, exc |-> "AWSPublishError",
              image_id |-> None]
        ELSE IF a.ship /\ IsPublic(item) /\ a.allow_public_images
        THEN [trace |-> sync.trace \o << publish, widen >>,
              exc |-> IF ext.publish_all THEN "none" ELSE "AWSPublishError",
              image_id |-> IF ext.publish_all THEN PublishedImageId ELSE None]
        ELSE [trace |-> sync.trace \o << publish >>, exc |-> "none",
              image_id |-> PublishedImageId]

\* a mutant of Upload: a widening publish that raised is only logged
Upload_WidenLogged(item, ext, a, env) ==
    LET publish == Call("publish", None, item.region, {}, ext.publish)
        widen == Call("publish", None, item.region, {"all"}, ext.publish_all)
    IN  IF ~HasAccounts(a, item.region)
        THEN [trace |-> << >>, exc |-> "KeyError", image_id |-> None]
        ELSE IF ~ext.publish
        THEN [trace |-> << publish >>, exc |-> "AWSPublishError", image_id |-> None]
        ELSE IF ~a.ship
        THEN [trace |-> << publish >>, exc |-> "none", image_id |-> PublishedImageId]
        ELSE LET sync == UpdateRhsmMetadata(item, ext, env)
             IN  IF sync.exc # "none"
                 THEN [trace |-> << publish >> \o sync.trace, exc |-> sync.exc,
                       image_id |-> None]
                 ELSE IF IsPublic(item) /\ a.allow_public_images
                 THEN [trace |-> << publish >> \o sync.trace \o << widen >>,
                       exc |-> "none", image_id |-> PublishedImageId]
                 ELSE [trace |-> << publish >> \o sync.trace, exc |-> "none",
                       image_id |-> PublishedImageId]

\* upload(push_item): the external calls in order, the exception raised (or
\* "none") and the image id returned
Upload(item, ext, a, env) ==
    LET publish == Call("publish", None, item.region, {}, ext.publish)
        widen == Call("publish", None, item.region, {"all"}, ext.publish_all)
    IN  IF ~HasAccounts(a, item.region)
        THEN [trace |-> << >>, exc |-> "KeyError", image_id |-> None]
        ELSE IF ~ext.publish
        THEN [trace |-> << publish >>, exc |-> "AWSPublishError", image_id |-> None]
        ELSE IF ~a.ship
        THEN [trace |-> << publish >>, exc |-> "none", image_id |-> PublishedImageId]
        ELSE LET sync == UpdateRhsmMetadata(item, ext, env)
             IN  IF sync.exc # "none"
                 THEN [trace |-> << publish >> \o sync.trace, exc |-> sync.exc,
                       image_id |-> None]
                 ELSE IF IsPublic(item) /\ a.allow_public_images
                 THEN [trace |-> << publish >> \o sync.trace \o << widen >>,
                       exc |-> IF ext.publish_all THEN "none" ELSE "AWSPublishError",
                       image_id |-> IF ext.publish_all THEN PublishedImageId ELSE None]
                 ELSE [trace |-> << publish >> \o sync.trace, exc |-> "none",
                       image_id |-> PublishedImageId]

\* name_from_metadata, reduced to the fields the model keeps
NameFromMetadata(item) == item.product \o "-" \o Upper(item.type)

----------------------------------------------------------------------------
(* RHSMClient.list_image_ids *)

NoListing == [requests |-> << >>, image_ids |-> {}]

\* a mutant of HandlePage: the ids of a page are taken before its count is read
RECURSIVE HandlePage_BodyFirst(_, _, _, _)
HandlePage_BodyFirst(pages, k, offset, acc) ==
    LET sent == [requests |-> Append(acc.requests,
                                     [limit |-> PageLimit, offset |-> offset]),
                 image_ids |-> acc.image_ids]
    IN  IF k > Len(pages) THEN sent
        ELSE LET got == [sent EXCEPT !.image_ids = @ \cup Range(pages[k].body)]
             IN  IF pages[k].count = 0 THEN got
                 ELSE HandlePage_BodyFirst(pages, k + 1,
                                           offset + pages[k].count, got)

\* handle_page(offset): request the k-th page; a page with a count adds its
\* ids and moves the offset on by the count, a page without one ends the
\* listing (as does a service that serves no further page)
RECURSIVE HandlePage(_, _, _, _)
HandlePage(pages, k, offset, acc) ==
    LET sent == [requests |-> Append(acc.requests,
                                     [limit |-> PageLimit, offset |-> offset]),
                 image_ids |-> acc.image_ids]
    IN  IF k > Len(pages) \/ pages[k].count = 0 THEN sent
        ELSE HandlePage(pages, k + 1, offset + pages[k].count,
                        [sent EXCEPT !.image_ids = @ \cup Range(pages[k].body)])

\* list_image_ids(): handle_page() from offset 0
ListImageIds(pages) == HandlePage(pages, 1, 0, NoListing)

----------------------------------------------------------------------------
(* The retrying executor: Executors.thread_pool(...).with_retry(...) *)

\* a mutant of ExceptionBase: push retries on every exception, as delete does
ExceptionBase_Any(t) ==
    { "HTTPError", "AWSPublishError", "AWSDeleteError", "MissingProductError",
      "KeyError", "Exception" }

\* exception_base of the ExceptionRetryPolicy of each task
ExceptionBase(t) ==
    IF t = "push" THEN { "HTTPError", "AWSPublishError" }
    ELSE { "HTTPError", "AWSPublishError", "AWSDeleteError",
           "MissingProductError", "KeyError", "Exception" }

\* ExceptionRetryPolicy(max_attempts=args.max_retries).should_retry
ShouldRetry(t, a, attempt, exc) ==
    exc \in ExceptionBase(t) /\ attempt < a.max_retries

\* a mutant of MaxWorkers: the pool has a thread for every batch
MaxWorkers_PerBatch == Len(region_data)

\* max_workers=min(len(region_data), self._REQUEST_THREADS)
MaxWorkers == Min(Len(region_data), args.request_threads)

Running == { b \in DOMAIN fut : fut[b].status = "running" }

\* a mutant of Settled: only a batch that returned counts as completed
Settled_DoneOnly(b) == fut[b].status = "done"

\* the future of batch b has completed, with a value or with an exception
Settled(b) == fut[b].status \in { "done", "raised" }

\* a mutant of Advanced: the loop leaves out every other unit
Advanced_SkipOne(f, n) ==
    IF f.idx >= n - 1 THEN [f EXCEPT !.status = "done"]
    ELSE [f EXCEPT !.idx = f.idx + 2]

\* the future of batch b after its loop went past unit idx without raising
Advanced(f, n) ==
    IF f.idx = n THEN [f EXCEPT !.status = "done"]
    ELSE [f EXCEPT !.idx = f.idx + 1]

\* a mutant of Raised: the retry is started while the attempt that raised
\* still holds the batch
Raised_Overlap(f, exc) ==
    IF ShouldRetry(task, args, f.attempt, exc)
    THEN [f EXCEPT !.attempt = @ + 1, !.idx = 1]
    ELSE [f EXCEPT !.status = "raised", !.exc = exc]

\* the future of batch b after its attempt raised exc
Raised(f, exc) ==
    IF ShouldRetry(task, args, f.attempt, exc)
    THEN [f EXCEPT !.status = "queued", !.idx = 0]
    ELSE [f EXCEPT !.status = "raised", !.exc = exc]

----------------------------------------------------------------------------
(* Initial states: a parsed command line, a source and a metadata service *)

\* the regions a cloud handle can be asked for
AwsRegions == { ItemPool[i].region : i \in DOMAIN ItemPool }

\* AWSPublishService.__init__: no factory cached, no handle built yet
NoAws == [instance |-> FALSE, handles |-> [r \in AwsRegions |-> 0]]

\* aws_service(region): under the lock the factory is built unless it is
\* cached; the factory is then called and builds a handle for the region
AwsService(s, region) ==
    [instance |-> TRUE, handles |-> [s.handles EXCEPT ![region] = @ + 1]]

\* self._rhsm_products = None: cached is << >> for None, << list >> for a list
NoProducts == [cached |-> << >>, fetches |-> 0]

\* a mutant of RhsmProducts: the list is requested at every resolution
RhsmProducts_NoMemo(m, service) ==
    [cached |-> << service.products >>, fetches |-> m.fetches + 1]

\* the rhsm_products property: the list is requested from the service while
\* self._rhsm_products is None, and kept
RhsmProducts(m, service) ==
    IF m.cached = << >>
    THEN [cached |-> << service.products >>, fetches |-> m.fetches + 1]
    ELSE m

\* n product resolutions in a row, each reading the property
RECURSIVE Lookups(_, _, _)
Lookups(m, service, n) ==
    IF n = 0 THEN m ELSE Lookups(RhsmProducts(m, service), service, n - 1)

\* the resolutions one upload makes: update_rhsm_metadata resolves the product
\* once the region was created
ProductLookups(trace) ==
    IF \E k \in DOMAIN trace : trace[k].op = "create_region" /\ trace[k].ok
    THEN 1 ELSE 0

\* what the task reads: the product list the property returns, the provider
Env == [products |-> RhsmProducts(rhsm_products, rhsm).cached[1],
        provider |-> args.aws_provider_name]

NoFuture ==
    [status |-> "queued", attempt |-> 0, idx |-> 0, exc |-> "none",
     image_id |-> None, snapshot_id |-> None]

NoUpload ==
    [batch |-> 0, unit |-> 0, trace |-> << >>, exc |-> "none", image_id |-> None]

Init ==
    /\ task \in { "push", "delete" }
    /\ args \in (IF task = "push" THEN PushArgs ELSE DeleteArgs)
    /\ \E items \in ItemLists :
          source_items = IF task = "push" THEN Staged(items) ELSE items
    /\ ami_push_items = source_items
    /\ rhsm \in (IF task = "push" THEN PushRhsm ELSE DeleteRhsm)
    /\ listed = NoListing
    /\ checked = << >>
    /\ rhsm_calls = << >>
    /\ pc = "start"
    /\ region_data = << >>
    /\ fut = << >>
    /\ calls = << >>
    /\ last = NoUpload
    /\ nxt = 0
    /\ consumed = {}
    /\ result = << >>
    /\ failed = FALSE
    /\ collector = NothingCollected
    /\ exit_code = 0
    /\ aws = NoAws
    /\ rhsm_products = NoProducts

----------------------------------------------------------------------------
(* The worker threads *)

\* a free worker thread takes a queued batch and starts an attempt
WorkerStart(b) ==
    /\ pc = "await"
    /\ fut[b].status = "queued"
    /\ Cardinality(Running) < MaxWorkers
    /\ fut' = [fut EXCEPT ![b] = [@ EXCEPT !.status = "running",
                                           !.attempt = @ + 1, !.idx = 1,
                                           !.image_id = None,
                                           !.snapshot_id = None]]
    /\ UNCHANGED << aws, rhsm_products,
                    task, args, rhsm, listed, source_items, ami_push_items, checked,
                    rhsm_calls, pc, region_data, calls, last, nxt, consumed,
                    result, failed, collector, exit_code >>

\* a mutant of AlreadyPushed: the retry forgets what it has pushed
AlreadyPushed_Never(d) == FALSE

\* dest_data.get("state", "") == "PUSHED"
AlreadyPushed(d) == Get(d, "state", "") = "PUSHED"

\* _push_to_region, loop body: a unit already PUSHED is passed over
PushSkip(b) ==
    /\ task = "push"
    /\ fut[b].status = "running"
    /\ AlreadyPushed(region_data[b][fut[b].idx])
    /\ fut' = [fut EXCEPT ![b] = Advanced(@, Len(region_data[b]))]
    /\ UNCHANGED << aws, rhsm_products,
                    task, args, rhsm, listed, source_items, ami_push_items, checked,
                    rhsm_calls, pc, region_data, calls, last, nxt, consumed,
                    result, failed, collector, exit_code >>

\* the dict of a unit after its upload returned image_id
Pushed(d, image_id) ==
    ( [ push_item |-> [d.push_item EXCEPT !.state = "PUSHED"],
        state |-> "PUSHED",
        image_id |-> image_id,
        image_name |-> NameFromMetadata(d.push_item) ] ) @@ d

\* _push_to_region, loop body: upload the unit, mark it PUSHED or re-raise
PushUpload(b) ==
    /\ task = "push"
    /\ fut[b].status = "running"
    /\ LET i == fut[b].idx
           d == region_data[b][i]
       IN  /\ ~AlreadyPushed(d)
           /\ \E r \in { Upload(d.push_item, ext, args, Env) : ext \in Ext } :
                /\ last' = [batch |-> b, unit |-> i] @@ r
                /\ calls' = [calls EXCEPT ![b] =
                               Append(@, [unit |-> i, ok |-> r.exc = "none"])]
                /\ aws' = IF r.exc = "KeyError" THEN aws
                          ELSE AwsService(aws, d.push_item.region)
                /\ rhsm_products' =
                     Lookups(rhsm_products, rhsm, ProductLookups(r.trace))
                /\ IF r.exc = "none"
                   THEN /\ region_data' = [region_data EXCEPT ![b][i] =
                                             Pushed(d, r.image_id)]
                        /\ fut' = [fut EXCEPT ![b] =
                                     Advanced(@, Len(region_data[b]))]
                   ELSE /\ region_data' = region_data
                        /\ fut' = [fut EXCEPT ![b] = Raised(@, r.exc)]
    /\ UNCHANGED << task, args, rhsm, listed, source_items, ami_push_items, checked,
                    rhsm_calls, pc, nxt, consumed, result, failed, collector,
                    exit_code >>

\* what aws.delete can return: (image id, snapshot id), either may be None
DeleteOutcomes(item, a) ==
    IF a.keep_snapshot
    THEN { << item.image_id, None >>, << None, None >> }
    ELSE { << item.image_id, "snap-1" >>, << None, "snap-1" >>, << None, None >> }

\* a mutant of Deleted: only a removed image makes the unit DELETED
Deleted_ImageOnly(d, out) ==
    LET state == IF Truthy(out[1]) THEN "DELETED" ELSE "MISSING"
    IN  ( [ push_item |-> [d.push_item EXCEPT !.state = state],
            state |-> state,
            image_id |-> out[1],
            snapshot_id |-> out[2] ] ) @@ d

\* the dict of a unit after _delete returned out
Deleted(d, out) ==
    LET state == IF Truthy(out[1]) \/ Truthy(out[2]) THEN "DELETED" ELSE "MISSING"
    IN  ( [ push_item |-> [d.push_item EXCEPT !.state = state],
            state |-> state,
            image_id |-> out[1],
            snapshot_id |-> out[2] ] ) @@ d

\* a mutant of IsDryRun: --dry-run is not honoured
IsDryRun_Never(a) == FALSE

\* if self.args.dry_run
IsDryRun(a) == a.dry_run

\* _delete_in_region, loop body with --dry-run: nothing is deleted
DeleteDryRun(b) ==
    /\ task = "delete"
    /\ fut[b].status = "running"
    /\ IsDryRun(args)
    /\ fut' = [fut EXCEPT ![b] = Advanced(@, Len(region_data[b]))]
    /\ UNCHANGED << aws, rhsm_products,
                    task, args, rhsm, listed, source_items, ami_push_items, checked,
                    rhsm_calls, pc, region_data, calls, last, nxt, consumed,
                    result, failed, collector, exit_code >>

\* _delete_in_region, loop body: delete the unit in the cloud, record the ids
DeleteUnit(b) ==
    /\ task = "delete"
    /\ fut[b].status = "running"
    /\ ~IsDryRun(args)
    /\ aws' = AwsService(aws, region_data[b][fut[b].idx].push_item.region)
    /\ LET i == fut[b].idx
           d == region_data[b][i]
       IN  \/ \E out \in DeleteOutcomes(d.push_item, args) :
                \* image_id, snapshot_id = self._delete(push_item)
                /\ calls' = [calls EXCEPT ![b] =
                               Append(@, [unit |-> i, ok |-> TRUE])]
                /\ region_data' = [region_data EXCEPT ![b][i] = Deleted(d, out)]
                /\ fut' = [fut EXCEPT ![b] =
                             Advanced([@ EXCEPT !.image_id = out[1],
                                                !.snapshot_id = out[2]],
                                      Len(region_data[b]))]
           \/ /\ calls' = [calls EXCEPT ![b] =
                             Append(@, [unit |-> i, ok |-> FALSE])]
              /\ region_data' = region_data
              /\ fut' = [fut EXCEPT ![b] = Raised(@, "AWSDeleteError")]
    /\ UNCHANGED << rhsm_products,
                    task, args, rhsm, listed, source_items, ami_push_items, checked,
                    rhsm_calls, pc, last, nxt, consumed, result, failed,
                    collector, exit_code >>

----------------------------------------------------------------------------
(* The main thread: AmiPush.run *)

Submitted(rd) == [b \in DOMAIN rd |-> NoFuture]

\* a mutant of FutureResult: a batch that raised still hands over its dicts
FutureResult_Partial(b) == [raised |-> FALSE, value |-> region_data[b]]

\* f_out.result(): the list the batch returned, or the exception it raised
FutureResult(b) ==
    IF fut[b].status = "done"
    THEN [raised |-> FALSE, value |-> region_data[b]]
    ELSE [raised |-> TRUE, value |-> << >>]

\* a mutant of FinishCode: the failure flag is ignored
FinishCode_Zero(f) == 0

\* the exit code run() ends with: self.fail() calls sys.exit(30)
FinishCode(f) == IF f THEN ExitFailure ELSE 0

\* run(): pre-flight check, partitioning, submission of one task per batch
PushRun ==
    /\ task = "push"
    /\ pc = "start"
    /\ LET pre == ItemsInMetadataService(ami_push_items, Env)
           rd == RegionData(ami_push_items)
       IN  /\ checked' = pre.checked
           /\ rhsm_products' = Lookups(rhsm_products, rhsm, Len(pre.checked))
           /\ ami_push_items' = AfterPreflight(ami_push_items, Env)
           /\ IF ~pre.verified
              THEN \* self.fail(...): sys.exit(30)
                   /\ pc' = "exited"
                   /\ exit_code' = ExitFailure
                   /\ UNCHANGED << region_data, fut, calls, nxt >>
              ELSE IF rd = << >>
              THEN \* thread_pool(max_workers=0) raises ValueError
                   /\ pc' = "crashed"
                   /\ UNCHANGED << region_data, fut, calls, nxt, exit_code >>
              ELSE /\ region_data' = rd
                   /\ fut' = Submitted(rd)
                   /\ calls' = [b \in DOMAIN rd |-> << >>]
                   /\ nxt' = 1
                   /\ pc' = "await"
                   /\ UNCHANGED exit_code
    /\ UNCHANGED << aws, task, args, rhsm, listed, source_items, rhsm_calls,
                    last, consumed, result, failed, collector >>

\* run(): f_out.result() on the futures in submission order
PushAwait ==
    /\ task = "push"
    /\ pc = "await"
    /\ Settled(nxt)
    /\ result' = result \o FutureResult(nxt).value
    /\ failed' = (failed \/ FutureResult(nxt).raised)
    /\ consumed' = consumed \cup { nxt }
    /\ IF nxt = Len(fut)
       THEN pc' = "collect" /\ nxt' = nxt
       ELSE pc' = pc /\ nxt' = nxt + 1
    /\ UNCHANGED << aws, rhsm_products,
                    task, args, rhsm, listed, source_items, ami_push_items, checked,
                    rhsm_calls, region_data, fut, calls, last, collector,
                    exit_code >>

\* run(): collect_push_result(result)
Collect ==
    /\ pc = "collect"
    /\ collector' = CollectPushResult(result)
    /\ pc' = "finish"
    /\ UNCHANGED << aws, rhsm_products,
                    task, args, rhsm, listed, source_items, ami_push_items, checked,
                    rhsm_calls, region_data, fut, calls, last, nxt, consumed,
                    result, failed, exit_code >>

\* run(): self.fail(...) when the failure flag is set, else normal return
Finish ==
    /\ pc = "finish"
    /\ pc' = "exited"
    /\ exit_code' = FinishCode(failed)
    /\ UNCHANGED << aws, rhsm_products,
                    task, args, rhsm, listed, source_items, ami_push_items, checked,
                    rhsm_calls, region_data, fut, calls, last, nxt, consumed,
                    result, failed, collector >>

----------------------------------------------------------------------------
(* The main thread: AmiDelete.run *)

\* a mutant of LimitPushItems: --limit is not applied
LimitPushItems_All(items, limit) == items

\* limit_push_items: with --limit only the listed image ids are kept
LimitPushItems(items, limit) ==
    IF limit = {} THEN items
    ELSE SelectSeq(items, LAMBDA it : it.image_id \in limit)

\* run(): limit_push_items, early return when nothing is selected
DeleteRun ==
    /\ task = "delete"
    /\ pc = "start"
    /\ ami_push_items' = LimitPushItems(ami_push_items, args.limit)
    /\ IF ami_push_items' = << >>
       THEN pc' = "exited" /\ nxt' = nxt
       ELSE pc' = "list" /\ nxt' = 1
    /\ UNCHANGED << aws, rhsm_products,
                    task, args, rhsm, listed, source_items, checked, rhsm_calls,
                    region_data, fut, calls, last, consumed, result, failed,
                    collector, exit_code >>

\* update_rhsm_metadata, first statement: rhsm_client.list_image_ids()
DeleteListImageIds ==
    /\ task = "delete"
    /\ pc = "list"
    /\ listed' = ListImageIds(rhsm.pages)
    /\ pc' = "rhsm"
    /\ UNCHANGED << aws, rhsm_products,
                    task, args, rhsm, source_items, ami_push_items, checked,
                    rhsm_calls, region_data, fut, calls, last, nxt, consumed,
                    result, failed, collector, exit_code >>

\* a mutant of KnownToRhsm: every image is taken to be listed
KnownToRhsm_Always(image_id, ids) == TRUE

\* item.image_id in rhsm_image_ids
KnownToRhsm(image_id, ids) == image_id \in ids

\* a mutant of RaisesForStatus: a failed update is only logged
RaisesForStatus_Never(ok) == FALSE

\* if not resp.ok: resp.raise_for_status()
RaisesForStatus(ok) == ~ok

\* update_rhsm_metadata, loop body for one item; after the last item do_delete
\* is entered
DeleteUpdateRhsm ==
    /\ task = "delete"
    /\ pc = "rhsm"
    /\ rhsm_products' =
         IF KnownToRhsm(ami_push_items[nxt].image_id, listed.image_ids)
         THEN RhsmProducts(rhsm_products, rhsm)
         ELSE rhsm_products
    /\ LET item == ami_push_items[nxt]
           goon == /\ pc' = IF nxt = Len(ami_push_items) THEN "submit" ELSE pc
                   /\ nxt' = IF nxt = Len(ami_push_items) THEN nxt ELSE nxt + 1
       IN  IF ~KnownToRhsm(item.image_id, listed.image_ids)
           THEN goon /\ UNCHANGED rhsm_calls
           ELSE IF ~InRhsm(Env.products, Env.provider, item.product, item.type)
           THEN \* MissingProductError leaves run()
                pc' = "crashed" /\ UNCHANGED << nxt, rhsm_calls >>
           ELSE IF IsDryRun(args)
           THEN goon /\ UNCHANGED rhsm_calls
           ELSE \E ok \in BOOLEAN :
                  /\ rhsm_calls' = Append(rhsm_calls,
                        [op |-> "update_image", image_id |-> item.image_id,
                         product_name |->
                           ToRhsmProduct(Env.products, Env.provider,
                                         item.product, item.type).product.name,
                         status |-> "invisible", ok |-> ok])
                  /\ IF RaisesForStatus(ok)
                     THEN \* HTTPError leaves run()
                          pc' = "crashed" /\ nxt' = nxt
                     ELSE goon
    /\ UNCHANGED << aws,
                    task, args, rhsm, listed, source_items, ami_push_items, checked,
                    region_data, fut, calls, last, consumed, result, failed,
                    collector, exit_code >>

\* do_delete: partitioning and submission of one task per batch
DoDelete ==
    /\ task = "delete"
    /\ pc = "submit"
    /\ LET rd == RegionData(ami_push_items)
       IN  IF rd = << >>
           THEN \* thread_pool(max_workers=0) raises ValueError
                /\ pc' = "crashed"
                /\ UNCHANGED << region_data, fut, calls >>
           ELSE /\ region_data' = rd
                /\ fut' = Submitted(rd)
                /\ calls' = [b \in DOMAIN rd |-> << >>]
                /\ pc' = "await"
    /\ UNCHANGED << aws, rhsm_products,
                    task, args, rhsm, listed, source_items, ami_push_items, checked,
                    rhsm_calls, last, nxt, consumed, result, failed, collector,
                    exit_code >>

\* a mutant of DeleteAwaitPc: the exception of a batch leaves do_delete
DeleteAwaitPc_Propagate(b, cons) ==
    IF fut[b].status = "raised" THEN "crashed"
    ELSE IF cons # DOMAIN fut THEN "await"
    ELSE IF IsDryRun(args) THEN "exited" ELSE "collect"

\* where run() stands after the outcome of future b was taken: the except
\* clause keeps the loop going; after the last future run() collects, and
\* with --dry-run it returns
DeleteAwaitPc(b, cons) ==
    IF cons # DOMAIN fut THEN "await"
    ELSE IF IsDryRun(args) THEN "exited" ELSE "collect"

\* do_delete: as_completed(to_await) hands over a settled future; after the
\* last one run() goes on, and with --dry-run it ends there
DeleteAwait(b) ==
    /\ task = "delete"
    /\ pc = "await"
    /\ b \notin consumed
    /\ Settled(b)
    /\ result' = result \o FutureResult(b).value
    /\ failed' = (failed \/ FutureResult(b).raised)
    /\ consumed' = consumed \cup { b }
    /\ pc' = DeleteAwaitPc(b, consumed')
    /\ UNCHANGED << aws, rhsm_products,
                    task, args, rhsm, listed, source_items, ami_push_items, checked,
                    rhsm_calls, region_data, fut, calls, last, nxt, collector,
                    exit_code >>

----------------------------------------------------------------------------

Next ==
    \/ PushRun
    \/ \E b \in DOMAIN fut : WorkerStart(b)
    \/ \E b \in DOMAIN fut : PushSkip(b)
    \/ \E b \in DOMAIN fut : PushUpload(b)
    \/ PushAwait
    \/ Collect
    \/ Finish
    \/ DeleteRun
    \/ DeleteListImageIds
    \/ DeleteUpdateRhsm
    \/ DoDelete
    \/ \E b \in DOMAIN fut : DeleteDryRun(b)
    \/ \E b \in DOMAIN fut : DeleteUnit(b)
    \/ \E b \in DOMAIN fut : DeleteAwait(b)

Spec == Init /\ [][Next]_vars

----------------------------------------------------------------------------
(* The image listing on its own: a delete of one image against a metadata
   service whose listing is any sequence of pages closed by an empty page *)

PagePool ==
    { Page(0, << >>), Page(0, << "ami-z" >>), Page(1, << "ami-a" >>),
      Page(2, << "ami-b", "ami-c" >>), Page(1, << >>) }

PageLists ==
    { Append(ps, z) : ps \in UNION { [1..n -> PagePool] : n \in 0..MaxPages },
                      z \in { pg \in PagePool : pg.count = 0 } }

InitList ==
    /\ task = "delete"
    /\ args \in { a \in DeleteArgs :
                    a.max_retries = 0 /\ ~a.dry_run /\ ~a.keep_snapshot }
    /\ source_items = << ItemPool[1] >>
    /\ ami_push_items = source_items
    /\ rhsm \in { [products |-> AllProducts, pages |-> ps] : ps \in PageLists }
    /\ listed = NoListing
    /\ checked = << >>
    /\ rhsm_calls = << >>
    /\ pc = "start"
    /\ region_data = << >>
    /\ fut = << >>
    /\ calls = << >>
    /\ last = NoUpload
    /\ nxt = 0
    /\ consumed = {}
    /\ result = << >>
    /\ failed = FALSE
    /\ collector = NothingCollected
    /\ exit_code = 0
    /\ aws = NoAws
    /\ rhsm_products = NoProducts

NextList ==
    \/ DeleteRun
    \/ DeleteListImageIds

SpecList == InitList /\ [][NextList]_vars

----------------------------------------------------------------------------
(* The size of the thread pool: runs whose environment sets the number of
   request threads of either task; every batch gets a single attempt *)

\* int(s) for the values the environment holds
ParseInt(s) ==
    CASE s = "1" -> 1
      [] s = "2" -> 2
      [] s = "5" -> 5

\* os.environ: either variable is unset (None) or holds a number
Environ ==
    [ AMI_PUSH_REQUEST_THREADS : { None, "1", "2" },
      AMI_DELETE_REQUEST_THREADS : { None, "1", "2" } ]

\* os.environ.get(name, "5")
EnvironGet(v) == IF v = None THEN "5" ELSE v

\* _REQUEST_THREADS of the class of task t
RequestThreads(t, env) ==
    IF t = "push" THEN ParseInt(EnvironGet(env.AMI_PUSH_REQUEST_THREADS))
    ELSE ParseInt(EnvironGet(env.AMI_DELETE_REQUEST_THREADS))

InitPool ==
    /\ task \in { "push", "delete" }
    /\ \E a \in (IF task = "push" THEN PushArgs ELSE DeleteArgs), e \in Environ :
         /\ a.max_retries = 0
         /\ ~a.dry_run
         /\ args = [environ |-> e]
                     @@ [a EXCEPT !.request_threads = RequestThreads(task, e)]
    /\ \E items \in ItemLists :
          source_items = IF task = "push" THEN Staged(items) ELSE items
    /\ ami_push_items = source_items
    /\ rhsm \in (IF task = "push" THEN PushRhsm ELSE DeleteRhsm)
    /\ listed = NoListing
    /\ checked = << >>
    /\ rhsm_calls = << >>
    /\ pc = "start"
    /\ region_data = << >>
    /\ fut = << >>
    /\ calls = << >>
    /\ last = NoUpload
    /\ nxt = 0
    /\ consumed = {}
    /\ result = << >>
    /\ failed = FALSE
    /\ collector = NothingCollected
    /\ exit_code = 0
    /\ aws = NoAws
    /\ rhsm_products = NoProducts

NextPool ==
    \/ PushRun
    \/ \E b \in DOMAIN fut : WorkerStart(b)
    \/ \E b \in DOMAIN fut : PushUpload(b)
    \/ PushAwait
    \/ Collect
    \/ Finish
    \/ DeleteRun
    \/ DeleteListImageIds
    \/ DeleteUpdateRhsm
    \/ DoDelete
    \/ \E b \in DOMAIN fut : DeleteUnit(b)
    \/ \E b \in DOMAIN fut : DeleteAwait(b)

SpecPool == InitPool /\ [][NextPool]_vars

----------------------------------------------------------------------------
(* Which exceptions are retried: pushes whose --accounts may lack the region
   of an item, so that its upload raises KeyError, and plain deletes *)

\* --accounts: a mapping with a default, or one for region-1 alone
AccountChoices == { DefaultAccounts, { "region-1" } }

InitRetry ==
    /\ task \in { "push", "delete" }
    /\ IF task = "push"
       THEN args \in { [a EXCEPT !.accounts = k] :
                         a \in PushArgs, k \in AccountChoices }
       ELSE args \in { a \in DeleteArgs :
                         ~a.dry_run /\ ~a.keep_snapshot /\ a.limit = {} }
    /\ \E items \in ItemLists :
          source_items = IF task = "push" THEN Staged(items) ELSE items
    /\ ami_push_items = source_items
    /\ rhsm \in { r \in (IF task = "push" THEN PushRhsm ELSE DeleteRhsm) :
                    r.products = AllProducts }
    /\ listed = NoListing
    /\ checked = << >>
    /\ rhsm_calls = << >>
    /\ pc = "start"
    /\ region_data = << >>
    /\ fut = << >>
    /\ calls = << >>
    /\ last = NoUpload
    /\ nxt = 0
    /\ consumed = {}
    /\ result = << >>
    /\ failed = FALSE
    /\ collector = NothingCollected
    /\ exit_code = 0
    /\ aws = NoAws
    /\ rhsm_products = NoProducts

NextRetry ==
    \/ PushRun
    \/ \E b \in DOMAIN fut : WorkerStart(b)
    \/ \E b \in DOMAIN fut : PushSkip(b)
    \/ \E b \in DOMAIN fut : PushUpload(b)
    \/ PushAwait
    \/ Collect
    \/ Finish
    \/ DeleteRun
    \/ DeleteListImageIds
    \/ DeleteUpdateRhsm
    \/ DoDelete
    \/ \E b \in DOMAIN fut : DeleteUnit(b)
    \/ \E b \in DOMAIN fut : DeleteAwait(b)

SpecRetry == InitRetry /\ [][NextRetry]_vars

----------------------------------------------------------------------------
(* The push of src/pubtools/_ami/tasks/push.py: a plain thread pool whose
   workers retry every upload themselves *)

\* max_retries = self.args.max_retries or 4
LegacyMaxRetries(a) ==
    IF a.max_retries = 0 THEN LegacyDefaultRetries ELSE a.max_retries

\* a mutant of LegacyUpload: an hourly image is released without --ship too
LegacyUpload_WidenUnshipped(item, ext, a, env) ==
    LET publish == Call("publish", None, item.region, {}, ext.publish)
        widen == Call("publish", None, item.region, {"all"}, ext.publish_all)
        sync == IF a.ship THEN UpdateRhsmMetadata(item, ext, env)
                ELSE [trace |-> << >>, exc |-> "none"]
    IN  IF ~HasAccounts(a, item.region)
        THEN [trace |-> << >>, exc |-> "KeyError", image_id |-> None]
        ELSE IF ~ext.publish
        THEN [trace |-> << publish >>, exc |-> "AWSPublishError", image_id |-> None]
        ELSE IF sync.exc # "none"
        THEN [trace |-> << publish >> \o sync.trace, exc |-> sync.exc,
              image_id |-> None]
        ELSE IF item.type = "hourly" /\ a.allow_public_images
        THEN [trace |-> << publish >> \o sync.trace \o << widen >>,
              exc |-> IF ext.publish_all THEN "none" ELSE "AWSPublishError",
              image_id |-> IF ext.publish_all THEN PublishedImageId ELSE None]
        ELSE [trace |-> << publish >> \o sync.trace, exc |-> "none",
              image_id |-> PublishedImageId]

\* upload(push_item) of this push: only hourly images are released publicly
LegacyUpload(item, ext, a, env) ==
    LET publish == Call("publish", None, item.region, {}, ext.publish)
        widen == Call("publish", None, item.region, {"all"}, ext.publish_all)
    IN  IF ~HasAccounts(a, item.region)
        THEN [trace |-> << >>, exc |-> "KeyError", image_id |-> None]
        ELSE IF ~ext.publish
        THEN [trace |-> << publish >>, exc |-> "AWSPublishError", image_id |-> None]
        ELSE IF ~a.ship
        THEN [trace |-> << publish >>, exc |-> "none", image_id |-> PublishedImageId]
        ELSE LET sync == UpdateRhsmMetadata(item, ext, env)
             IN  IF sync.exc # "none"
                 THEN [trace |-> << publish >> \o sync.trace, exc |-> sync.exc,
                       image_id |-> None]
                 ELSE IF item.type = "hourly" /\ a.allow_public_images
                 THEN [trace |-> << publish >> \o sync.trace \o << widen >>,
                       exc |-> IF ext.publish_all THEN "none" ELSE "AWSPublishError",
                       image_id |-> IF ext.publish_all THEN PublishedImageId ELSE None]
                 ELSE [trace |-> << publish >> \o sync.trace, exc |-> "none",
                       image_id |-> PublishedImageId]

\* a submitted batch and the locals of its worker
NoLegacyFuture ==
    [status |-> "queued", idx |-> 0, retries |-> 0, exc |-> "none"]

\* the dict of a unit whose upload was given up
NotPushed(d) ==
    ( [ push_item |-> [d.push_item EXCEPT !.state = "NOTPUSHED"],
        state |-> "NOTPUSHED",
        image_id |-> None,
        image_name |-> None ] ) @@ d

\* the worker after it left the while loop of unit idx: next unit, fresh count
LegacyNextUnit(f, n, a) ==
    IF f.idx = n THEN [f EXCEPT !.status = "done"]
    ELSE [f EXCEPT !.idx = f.idx + 1, !.retries = LegacyMaxRetries(a)]

\* except (HTTPError, AWSPublishError)
LegacyCaught(exc) == exc \in { "HTTPError", "AWSPublishError" }

\* run(): pre-flight check, partitioning, submission of one task per batch
LegacyRun ==
    /\ task = "legacy"
    /\ pc = "start"
    /\ LET pre == ItemsInMetadataService(ami_push_items, Env)
           rd == RegionData(ami_push_items)
       IN  /\ checked' = pre.checked
           /\ rhsm_products' = Lookups(rhsm_products, rhsm, Len(pre.checked))
           /\ ami_push_items' = AfterPreflight(ami_push_items, Env)
           /\ IF ~pre.verified
              THEN \* self.fail(...): sys.exit(30)
                   /\ pc' = "exited"
                   /\ exit_code' = ExitFailure
                   /\ UNCHANGED << region_data, fut, calls, nxt >>
              ELSE IF rd = << >>
              THEN \* thread_pool(max_workers=0) raises ValueError
                   /\ pc' = "crashed"
                   /\ UNCHANGED << region_data, fut, calls, nxt, exit_code >>
              ELSE /\ region_data' = rd
                   /\ fut' = [b \in DOMAIN rd |-> NoLegacyFuture]
                   /\ calls' = [b \in DOMAIN rd |-> << >>]
                   /\ nxt' = 1
                   /\ pc' = "await"
                   /\ UNCHANGED exit_code
    /\ UNCHANGED << aws, task, args, rhsm, listed, source_items, rhsm_calls,
                    last, consumed, result, failed, collector >>

\* a free worker thread takes a queued batch: _push_to_region begins
LegacyWorkerStart(b) ==
    /\ task = "legacy"
    /\ pc = "await"
    /\ fut[b].status = "queued"
    /\ Cardinality(Running) < MaxWorkers
    /\ fut' = [fut EXCEPT ![b] = [@ EXCEPT !.status = "running", !.idx = 1,
                                           !.retries = LegacyMaxRetries(args)]]
    /\ UNCHANGED << aws, rhsm_products,
                    task, args, rhsm, listed, source_items, ami_push_items, checked,
                    rhsm_calls, pc, region_data, calls, last, nxt, consumed,
                    result, failed, collector, exit_code >>

\* _push_to_region, one pass of the while loop: upload the unit; mark it
\* PUSHED, or count the retry down, or mark it NOTPUSHED and go on
LegacyPushUnit(b) ==
    /\ task = "legacy"
    /\ fut[b].status = "running"
    /\ LET i == fut[b].idx
           d == region_data[b][i]
           n == Len(region_data[b])
       IN  \E r \in { LegacyUpload(d.push_item, ext, args, Env) : ext \in Ext } :
             /\ last' = [batch |-> b, unit |-> i] @@ r
             /\ calls' = [calls EXCEPT ![b] =
                            Append(@, [unit |-> i, ok |-> r.exc = "none"])]
             /\ aws' = IF r.exc = "KeyError" THEN aws
                       ELSE AwsService(aws, d.push_item.region)
             /\ rhsm_products' =
                  Lookups(rhsm_products, rhsm, ProductLookups(r.trace))
             /\ IF r.exc = "none"
                THEN /\ region_data' = [region_data EXCEPT ![b][i] =
                                          Pushed(d, r.image_id)]
                     /\ fut' = [fut EXCEPT ![b] = LegacyNextUnit(@, n, args)]
                ELSE IF ~LegacyCaught(r.exc)
                THEN \* the exception leaves _push_to_region
                     /\ region_data' = region_data
                     /\ fut' = [fut EXCEPT ![b] =
                                  [@ EXCEPT !.status = "raised", !.exc = r.exc]]
                ELSE IF fut[b].retries > 0
                THEN /\ region_data' = region_data
                     /\ fut' = [fut EXCEPT ![b] = [@ EXCEPT !.retries = @ - 1]]
                ELSE /\ region_data' = [region_data EXCEPT ![b][i] = NotPushed(d)]
                     /\ fut' = [fut EXCEPT ![b] = LegacyNextUnit(@, n, args)]
    /\ UNCHANGED << task, args, rhsm, listed, source_items, ami_push_items, checked,
                    rhsm_calls, pc, nxt, consumed, result, failed, collector,
                    exit_code >>

\* run(): f_out.result() on the futures in submission order; an exception of
\* a batch leaves run()
LegacyAwait ==
    /\ task = "legacy"
    /\ pc = "await"
    /\ Settled(nxt)
    /\ consumed' = consumed \cup { nxt }
    /\ IF fut[nxt].status = "raised"
       THEN pc' = "crashed" /\ UNCHANGED << result, nxt >>
       ELSE /\ result' = result \o region_data[nxt]
            /\ IF nxt = Len(fut)
               THEN pc' = "collect" /\ nxt' = nxt
               ELSE pc' = pc /\ nxt' = nxt + 1
    /\ UNCHANGED << aws, rhsm_products,
                    task, args, rhsm, listed, source_items, ami_push_items, checked,
                    rhsm_calls, region_data, fut, calls, last, failed, collector,
                    exit_code >>

\* a mutant of LegacyFailed: the run fails only if no result has an image id
LegacyFailed_Every(results) ==
    \A i \in DOMAIN results : ~Truthy(Get(results[i], "image_id", None))

\* the failure flag of run(): some result has no image id
LegacyFailed(results) ==
    \E i \in DOMAIN results : ~Truthy(Get(results[i], "image_id", None))

\* collect_push_result of this push: what the sink receives
LegacyCollectPushResult(results) ==
    [ attached |-> TRUE,
      images_json |->
        [i \in DOMAIN results |->
            [ami |-> results[i].image_id, name |-> results[i].image_name]
              @@ StripNone(results[i].push_item)],
      push_items |-> << >> ]

\* run(): the failure flag is computed, then the results are collected
LegacyCollect ==
    /\ task = "legacy"
    /\ pc = "collect"
    /\ failed' = LegacyFailed(result)
    /\ collector' = LegacyCollectPushResult(result)
    /\ pc' = "finish"
    /\ UNCHANGED << aws, rhsm_products,
                    task, args, rhsm, listed, source_items, ami_push_items, checked,
                    rhsm_calls, region_data, fut, calls, last, nxt, consumed,
                    result, exit_code >>

\* the environment of these runs: AMI_PUSH_REQUEST_THREADS=2
LegacyEnviron ==
    [AMI_PUSH_REQUEST_THREADS |-> "2", AMI_DELETE_REQUEST_THREADS |-> None]

\* --max-retries is 0, which the code replaces by its default, or the largest
\* value tried
InitLegacy ==
    /\ task = "legacy"
    /\ args \in { [a EXCEPT !.request_threads = RequestThreads("push", LegacyEnviron)] :
                    a \in { x \in PushArgs : x.max_retries \in { 0, MaxRetries } } }
    /\ \E items \in ItemLists : source_items = Staged(items)
    /\ ami_push_items = source_items
    /\ rhsm \in PushRhsm
    /\ listed = NoListing
    /\ checked = << >>
    /\ rhsm_calls = << >>
    /\ pc = "start"
    /\ region_data = << >>
    /\ fut = << >>
    /\ calls = << >>
    /\ last = NoUpload
    /\ nxt = 0
    /\ consumed = {}
    /\ result = << >>
    /\ failed = FALSE
    /\ collector = NothingCollected
    /\ exit_code = 0
    /\ aws = NoAws
    /\ rhsm_products = NoProducts

NextLegacy ==
    \/ LegacyRun
    \/ \E b \in DOMAIN fut : LegacyWorkerStart(b)
    \/ \E b \in DOMAIN fut : LegacyPushUnit(b)
    \/ LegacyAwait
    \/ LegacyCollect
    \/ Finish

SpecLegacy == InitLegacy /\ [][NextLegacy]_vars

----------------------------------------------------------------------------
(* The uploads of both pushes side by side: runs with --max-retries 1 *)

InitUpload ==
    /\ task \in { "push", "legacy" }
    /\ args \in { a \in PushArgs : a.max_retries = 1 }
    /\ \E items \in ItemLists : source_items = Staged(items)
    /\ ami_push_items = source_items
    /\ rhsm \in PushRhsm
    /\ listed = NoListing
    /\ checked = << >>
    /\ rhsm_calls = << >>
    /\ pc = "start"
    /\ region_data = << >>
    /\ fut = << >>
    /\ calls = << >>
    /\ last = NoUpload
    /\ nxt = 0
    /\ consumed = {}
    /\ result = << >>
    /\ failed = FALSE
    /\ collector = NothingCollected
    /\ exit_code = 0
    /\ aws = NoAws
    /\ rhsm_products = NoProducts

NextUpload ==
    \/ PushRun
    \/ \E b \in DOMAIN fut : WorkerStart(b)
    \/ \E b \in DOMAIN fut : PushUpload(b)
    \/ PushAwait
    \/ Collect
    \/ LegacyRun
    \/ \E b \in DOMAIN fut : LegacyWorkerStart(b)
    \/ \E b \in DOMAIN fut : LegacyPushUnit(b)
    \/ LegacyAwait
    \/ LegacyCollect
    \/ Finish

SpecUpload == InitUpload /\ [][NextUpload]_vars

----------------------------------------------------------------------------
(* The product lookup on its own: a delete of one listed image, of any
   product and image type, against any short product list *)

\* products of two providers; ids tell apart products equal in both fields
ProductPool ==
    { [name |-> "RHEL", providerShortName |-> "AWS", id |-> "p1"],
      [name |-> "RHEL", providerShortName |-> "AWS", id |-> "p2"],
      [name |-> "RHEL", providerShortName |-> "ACN", id |-> "p3"],
      [name |-> "RHEL_HOURLY", providerShortName |-> "AWS", id |-> "p4"],
      [name |-> "RHEL_HOURLY", providerShortName |-> "AWS", id |-> "p5"],
      [name |-> "RHEL_HOURLY", providerShortName |-> "ACN", id |-> "p6"] }

ProductLists == UNION { [1..n -> ProductPool] : n \in 0..MaxProducts }

\* the image ami-a as an item of each product and image type
ProductItems ==
    { [ItemPool[1] EXCEPT !.product = p, !.type = t] :
        p \in { "RHEL", "RHEL_HOURLY" },
        t \in { "hourly", "Hourly", "HOURLY", "access" } }

InitProduct ==
    /\ task = "delete"
    /\ args \in { [a EXCEPT !.aws_provider_name = n] :
                    a \in { x \in DeleteArgs : /\ x.max_retries = 0
                                              /\ ~x.dry_run
                                              /\ ~x.keep_snapshot
                                              /\ x.limit = {} },
                    n \in { "AWS", "ACN" } }
    /\ source_items \in { << it >> : it \in ProductItems }
    /\ ami_push_items = source_items
    /\ rhsm \in { [products |-> ps,
                   pages |-> << Page(1, << "ami-a" >>), Page(0, << >>) >>] :
                    ps \in ProductLists }
    /\ listed = NoListing
    /\ checked = << >>
    /\ rhsm_calls = << >>
    /\ pc = "start"
    /\ region_data = << >>
    /\ fut = << >>
    /\ calls = << >>
    /\ last = NoUpload
    /\ nxt = 0
    /\ consumed = {}
    /\ result = << >>
    /\ failed = FALSE
    /\ collector = NothingCollected
    /\ exit_code = 0
    /\ aws = NoAws
    /\ rhsm_products = NoProducts

NextProduct ==
    \/ DeleteRun
    \/ DeleteListImageIds
    \/ DeleteUpdateRhsm

SpecProduct == InitProduct /\ [][NextProduct]_vars

----------------------------------------------------------------------------
(* RHSMClient on its own: requests made through one client, each answered
   with an HTTP response or with a transport error *)

\* the requests of the client; handle_page is one page of list_image_ids
ClientOps ==
    { "rhsm_products", "handle_page", "create_region", "update_image",
      "create_image" }

\* what the session call ends with: a response, or an exception such as
\* ConnectionError once the retrying executor has given up
Answers ==
    { [kind |-> "response", status_code |-> c] : c \in { 200, 204, 404, 500 } }
      \cup { [kind |-> "error", exception |-> "ConnectionError"] }

\* Response.ok: raise_for_status() would not raise
Ok(status_code) == status_code < 400

\* a mutant of ChecksStatus: every request checks the status of its response
ChecksStatus_All(op) == TRUE

\* the requests whose future is mapped with fn=self._check_http_response
ChecksStatus(op) == op \in { "rhsm_products", "handle_page" }

\* f_map(out, fn=..., error_fn=self._on_failure): the future handed out
ClientFuture(op, answer) ==
    IF answer.kind = "error"
    THEN \* _on_failure logs the exception and raises it again
         [state |-> "exception", exception |-> answer.exception]
    ELSE IF ChecksStatus(op) /\ ~Ok(answer.status_code)
    THEN \* _check_http_response: response.raise_for_status()
         [state |-> "exception", exception |-> "HTTPError"]
    ELSE [state |-> "result", status_code |-> answer.status_code,
          ok |-> Ok(answer.status_code)]

InitClient ==
    /\ task = "delete"
    /\ args \in { a \in DeleteArgs : /\ a.max_retries = 0
                                     /\ ~a.dry_run
                                     /\ ~a.keep_snapshot
                                     /\ a.limit = {} }
    /\ source_items = << >>
    /\ ami_push_items = source_items
    /\ rhsm = [products |-> AllProducts, pages |-> << Page(0, << >>) >>]
    /\ listed = NoListing
    /\ checked = << >>
    /\ rhsm_calls = << >>
    /\ pc = "start"
    /\ region_data = << >>
    /\ fut = << >>
    /\ calls = << >>
    /\ last = NoUpload
    /\ nxt = 0
    /\ consumed = {}
    /\ result = << >>
    /\ failed = FALSE
    /\ collector = NothingCollected
    /\ exit_code = 0
    /\ aws = NoAws
    /\ rhsm_products = NoProducts

\* one request through the client: the future it returns is recorded
ClientCall(op) ==
    /\ Len(rhsm_calls) < MaxCalls
    /\ \E answer \in Answers :
         rhsm_calls' = Append(rhsm_calls,
                              [op |-> op, answer |-> answer,
                               future |-> ClientFuture(op, answer)])
    /\ UNCHANGED << aws, rhsm_products, task, args, rhsm, listed, source_items,
                    ami_push_items, checked, pc, region_data, fut, calls, last,
                    nxt, consumed, result, failed, collector, exit_code >>

NextClient == \E op \in ClientOps : ClientCall(op)

SpecClient == InitClient /\ [][NextClient]_vars

----------------------------------------------------------------------------
(* Push and delete under fair scheduling: as long as some thread can take a
   step, a step is eventually taken. The main thread is never blocked except
   on a future, a pool thread picks up a queued batch, and every external
   call of a worker returns or raises. *)

Fairness == WF_vars(Next)

\* the runs of Init with no retry or the most retries: a push that may
\* release publicly; a delete with --limit that is a dry run or keeps the
\* snapshots
InitLive ==
    /\ Init
    /\ args.max_retries \in { 0, MaxRetries }
    /\ task = "push" => args.allow_public_images
    /\ task = "delete" => args.limit # {} /\ (args.dry_run \/ args.keep_snapshot)

SpecLive == InitLive /\ [][Next]_vars /\ Fairness

----------------------------------------------------------------------------
(* Properties *)

\* the name of the push item every unit of batch b refers to
BatchName(b) == region_data[b][1].push_item.name

\* the dicts of the aggregated result that belong to batch b
ResultsOf(b) == SelectSeq(result, LAMBDA r : r.push_item.name = BatchName(b))

\* batch b ran into an exception on its final attempt
BatchRaised(b) == fut[b].status = "raised"

UnitState(d) == Get(d, "state", "")

\* C1: in the concurrent push a unit that was uploaded successfully (state
\* PUSHED) is never uploaded again by a later attempt of its batch, and a
\* finished batch [u1, u2] whose only failure was one failed upload of u2 made
\* exactly the three upload calls u1, u2, u2.
C1_PushedUnitNotReuploaded ==
    task = "push" =>
      \A b \in DOMAIN calls :
        /\ \A j, k \in DOMAIN calls[b] :
             j < k /\ calls[b][j].ok => calls[b][k].unit # calls[b][j].unit
        /\ \A i \in DOMAIN region_data[b] :
             UnitState(region_data[b][i]) = "PUSHED"
               <=> \E k \in DOMAIN calls[b] : calls[b][k].unit = i /\ calls[b][k].ok
        /\ ( /\ Len(region_data[b]) = 2
             /\ fut[b].status = "done"
             /\ { calls[b][k].unit : k \in { k \in DOMAIN calls[b] : ~calls[b][k].ok } } = { 2 }
             /\ Cardinality({ k \in DOMAIN calls[b] : ~calls[b][k].ok }) = 1 )
           => calls[b] = << [unit |-> 1, ok |-> TRUE], [unit |-> 2, ok |-> FALSE],
                            [unit |-> 2, ok |-> TRUE] >>

\* C1 witness: a batch [u1, u2] finished after u2 failed once and was retried
C1_Witness ==
    /\ task = "push"
    /\ \E b \in DOMAIN calls :
         /\ fut[b].status = "done"
         /\ fut[b].attempt = 2
         /\ calls[b] = << [unit |-> 1, ok |-> TRUE], [unit |-> 2, ok |-> FALSE],
                          [unit |-> 2, ok |-> TRUE] >>

\* C2 (as claimed): in delete, a retried batch does not call the cloud delete
\* again for a unit whose delete already returned (state DELETED or MISSING).
C2_DeletedUnitNotRedeleted ==
    task = "delete" =>
      \A b \in DOMAIN calls :
        \A j, k \in DOMAIN calls[b] :
          j < k /\ calls[b][j].ok => calls[b][k].unit # calls[b][j].unit

\* C3 (as claimed): the state of a work unit changes at most once, from
\* pending to PUSHED / NOTPUSHED (push) or to DELETED / MISSING (delete), and
\* a state once reached is kept.
C3_StateChangesAtMostOnce ==
    [][ \A b \in DOMAIN region_data :
          b \in DOMAIN region_data' =>
            \A i \in DOMAIN region_data[b] :
              LET old == region_data[b][i]
                  new == region_data'[b][i]
              IN  /\ UnitState(old) # ""
                       => /\ UnitState(new) = UnitState(old)
                          /\ new.push_item.state = old.push_item.state
                  /\ UnitState(old) = "" /\ UnitState(new) # ""
                       => /\ old.push_item.state = "PENDING"
                          /\ new.push_item.state = UnitState(new)
                          /\ UnitState(new) \in
                               (IF task = "push" THEN { "PUSHED", "NOTPUSHED" }
                                ELSE { "DELETED", "MISSING" })
      ]_vars

\* C4 (as claimed): a single-unit batch whose cloud operation raises on every
\* attempt has made exactly max-retries + 1 cloud calls when it is given up.
C4_ExhaustionAfterMaxRetriesPlusOne ==
    \A b \in DOMAIN fut :
      Len(region_data[b]) = 1 /\ BatchRaised(b)
        => Len(calls[b]) = args.max_retries + 1

\* C5: once the results were handed to the sink, the sink holds exactly the
\* aggregated list; a batch whose final attempt raised has none of its units
\* in it, not even those it had finished, and a batch that returned has all.
C5_RaisedBatchContributesNothing ==
    collector.attached =>
      /\ collector = CollectPushResult(result)
      /\ \A b \in DOMAIN fut :
           /\ Settled(b)
           /\ BatchRaised(b) => ResultsOf(b) = << >>
           /\ ~BatchRaised(b) => ResultsOf(b) = region_data[b]

\* C5 witness: results were collected while a batch that had finished a unit
\* raised on its final attempt and another batch returned
C5_Witness ==
    /\ collector.attached
    /\ \E b, c \in DOMAIN fut :
         /\ BatchRaised(b)
         /\ \E i \in DOMAIN region_data[b] : UnitState(region_data[b][i]) # ""
         /\ fut[c].status = "done"
         /\ collector.images_json # << >>

\* the image ids of the selected items the metadata service lists
ListedIds ==
    { ami_push_items[i].image_id : i \in DOMAIN ami_push_items } \cap listed.image_ids

\* C6: in delete, a cloud delete call is made only after the metadata-update
\* step went through all selected items with every update answered ok; a
\* non-ok update is the last metadata call, ends the task at once, and no
\* cloud delete call is made and nothing reaches the sink.
C6_DeleteOnlyAfterMetadataStep ==
    task = "delete" =>
      /\ (\E b \in DOMAIN calls : calls[b] # << >>)
           => /\ pc \in { "await", "collect", "finish", "exited" }
              /\ \A k \in DOMAIN rhsm_calls : rhsm_calls[k].ok
              /\ { rhsm_calls[k].image_id : k \in DOMAIN rhsm_calls } = ListedIds
      /\ \A k \in DOMAIN rhsm_calls :
           ~rhsm_calls[k].ok
             => /\ k = Len(rhsm_calls)
                /\ pc = "crashed"
                /\ fut = << >>
                /\ calls = << >>
                /\ ~collector.attached

\* C6 witness: the second invisible-marking update was answered non-ok
C6_Witness ==
    /\ task = "delete"
    /\ Len(rhsm_calls) = 2
    /\ rhsm_calls[1].ok
    /\ ~rhsm_calls[2].ok
    /\ pc = "crashed"

\* some push item has a product the metadata service does not resolve
SomeProductMissing ==
    \E i \in DOMAIN ami_push_items :
      ~InRhsm(Env.products, Env.provider,
              ami_push_items[i].product, ami_push_items[i].type)

\* C7: in push, when the product of some item does not resolve, the run has
\* looked up every item and exited with code 30, with no batch submitted, no
\* upload (so no cloud publish and no metadata write) and nothing at the sink.
C7_PreflightGate ==
    task = "push" /\ pc # "start" /\ SomeProductMissing =>
      /\ pc = "exited"
      /\ exit_code = ExitFailure
      /\ checked = [i \in DOMAIN ami_push_items |-> ami_push_items[i].name]
      /\ fut = << >>
      /\ calls = << >>
      /\ last = NoUpload
      /\ rhsm_calls = << >>
      /\ ~collector.attached

\* C7 witness: the first of two items is missing and the second was looked up
C7_Witness ==
    /\ task = "push"
    /\ pc = "exited"
    /\ Len(ami_push_items) = 2
    /\ ~InRhsm(Env.products, Env.provider,
               ami_push_items[1].product, ami_push_items[1].type)
    /\ Len(checked) = 2

\* C8: in delete, the run leaves the waiting loop only when every submitted
\* batch has returned or was given up after its own last attempt; the results
\* of the returned batches are in the result list and the failure flag tells
\* whether a batch raised.
C8_RaisedBatchStopsNoOther ==
    task = "delete" /\ fut # << >> /\ pc # "await" =>
      /\ consumed = DOMAIN fut
      /\ \A b \in DOMAIN fut :
           /\ Settled(b)
           /\ BatchRaised(b) => ~ShouldRetry(task, args, fut[b].attempt, fut[b].exc)
           /\ fut[b].status = "done" => ResultsOf(b) = region_data[b]
      /\ failed = (\E b \in DOMAIN fut : BatchRaised(b))

\* C8 witness: one batch was given up, another one ran and returned
C8_Witness ==
    /\ task = "delete"
    /\ pc = "exited"
    /\ failed
    /\ \E b, c \in DOMAIN fut :
         /\ BatchRaised(b)
         /\ fut[c].status = "done"
         /\ calls[c] # << >>
         /\ ResultsOf(c) # << >>

\* C9: in the concurrent push and in delete without --dry-run, a run that
\* submitted batches exits only after it handed the results of the returned
\* batches to the sink, and its exit code is 30 exactly if a batch raised.
C9_CollectThenExit ==
    fut # << >> /\ ~args.dry_run =>
      /\ pc \in { "await", "collect" } => ~collector.attached /\ exit_code = 0
      /\ pc \in { "finish", "exited" } =>
           /\ collector.attached
           /\ Len(collector.images_json) = Len(result)
           /\ Len(collector.push_items) = Len(result)
           /\ \A b \in DOMAIN fut :
                fut[b].status = "done" => ResultsOf(b) = region_data[b]
      /\ pc = "exited" =>
           exit_code = (IF \E b \in DOMAIN fut : BatchRaised(b)
                        THEN ExitFailure ELSE 0)

\* C9 witness: a run exited with code 30 after collecting a returned batch
C9_Witness ==
    /\ pc = "exited"
    /\ exit_code = ExitFailure
    /\ collector.attached
    /\ collector.push_items # << >>
    /\ \E b \in DOMAIN fut : BatchRaised(b)

\* the unit at which batch b raised on its final attempt
RaisedUnit(b) == calls[b][Len(calls[b])].unit

\* C10 (as claimed): in the concurrent push a unit whose upload raised on
\* every allowed attempt ends in state NOTPUSHED and the task exits with 30.
C10_ExhaustedUnitNotPushed ==
    task = "push" =>
      \A b \in DOMAIN fut :
        BatchRaised(b) =>
          /\ UnitState(region_data[b][RaisedUnit(b)]) = "NOTPUSHED"
          /\ pc = "exited" => exit_code = ExitFailure

\* C10 (what the code does): in the concurrent push a unit whose upload raised on the
\* final attempt of its batch is never marked: it has no state of its own, its
\* item stays PENDING, none of the batch is in the results, and the task exits
\* with code 30.
C10_ExhaustedUnitStaysPending ==
    task = "push" =>
      \A b \in DOMAIN fut :
        BatchRaised(b) =>
          /\ "state" \notin DOMAIN region_data[b][RaisedUnit(b)]
          /\ region_data[b][RaisedUnit(b)].push_item.state = "PENDING"
          /\ ~calls[b][Len(calls[b])].ok
          /\ ResultsOf(b) = << >>
          /\ pc = "exited" => exit_code = ExitFailure

\* C10 witness: the run ended after a unit failed on all attempts
C10_Witness ==
    /\ task = "push"
    /\ pc = "exited"
    /\ \E b \in DOMAIN fut :
         /\ BatchRaised(b)
         /\ Len(calls[b]) >= 2
         /\ \A k \in DOMAIN calls[b] : ~calls[b][k].ok

\* the region every unit of batch b targets
BatchRegion(b) == region_data[b][1].push_item.region

\* C11 (as claimed): the pool gets one task per distinct region: no two
\* batches target the same region, so no two workers are ever inside batches
\* of one region at the same time.
C11_OneTaskPerRegion ==
    \A b, c \in DOMAIN region_data :
      b # c =>
        /\ BatchRegion(b) # BatchRegion(c)
        /\ ~(fut[b].status = "running" /\ fut[c].status = "running")

\* the units of a list of items in input order: one per (item, destination)
RECURSIVE Expand(_)
Expand(items) ==
    IF items = << >> THEN << >>
    ELSE [k \in 1..Head(items).dest |-> [push_item |-> Head(items)]]
         \o Expand(Tail(items))

RECURSIVE SumLen(_)
SumLen(bs) == IF bs = << >> THEN 0 ELSE Len(Head(bs)) + SumLen(Tail(bs))

\* C12: region_data yields as many units as the items have destinations in
\* total; every unit refers to an item of the input and sits in exactly one
\* batch, which holds all units of that item in input order; an item without
\* destinations yields no unit; the submitted batches are these batches.
C12_RegionDataUnits ==
    LET rd == RegionData(ami_push_items)
        all == Expand(ami_push_items)
    IN  /\ SumLen(rd) = Len(all)
        /\ \A b \in DOMAIN rd :
             /\ rd[b] # << >>
             /\ rd[b] = SelectSeq(all, LAMBDA u : u = rd[b][1])
             /\ rd[b][1].push_item \in Range(ami_push_items)
             /\ rd[b][1].push_item.dest > 0
             /\ \A c \in DOMAIN rd : c # b => rd[c][1] # rd[b][1]
        /\ \A u \in Range(all) : \E b \in DOMAIN rd : rd[b][1] = u
        /\ region_data # << >> =>
             /\ DOMAIN region_data = DOMAIN rd
             /\ \A b \in DOMAIN rd :
                  /\ DOMAIN region_data[b] = DOMAIN rd[b]
                  /\ \A i \in DOMAIN rd[b] :
                       region_data[b][i].push_item.name = rd[b][i].push_item.name

\* C12 witness: batches were submitted for a list that holds an item with two
\* destinations and an item with none
C12_Witness ==
    /\ region_data # << >>
    /\ \E i, j \in DOMAIN ami_push_items :
         /\ ami_push_items[i].dest = 2
         /\ ami_push_items[j].dest = 0
    /\ Len(region_data) = 1
    /\ Len(region_data[1]) = 2

\* the unit the latest cloud operation worked on
LastUnit == region_data[last.batch][last.unit]

\* the positions of the calls of operation op in the latest upload
LastOps(op) == { k \in DOMAIN last.trace : last.trace[k].op = op }

\* C13: in the metadata sync of an upload, a non-ok createRegion raises and is
\* the last call; an ok updateImage is followed by no createImage; a non-ok
\* updateImage is followed by exactly one createImage for the same image id
\* that adds the region; a non-ok createImage raises after the publish went
\* through, and the unit is not PUSHED by that attempt.
C13_MetadataSync ==
    task = "push" =>
      LET t == last.trace
      IN  /\ \A k \in LastOps("create_region") :
               /\ args.ship
               /\ k = 2 /\ t[1].op = "publish" /\ t[1].ok
               /\ ~t[k].ok =>
                    /\ k = Len(t)
                    /\ last.exc = "HTTPError"
                    /\ LastOps("update_image") = {}
                    /\ LastOps("create_image") = {}
          /\ \A k \in LastOps("update_image") :
               /\ t[k].ok => LastOps("create_image") = {}
               /\ ~t[k].ok =>
                    /\ LastOps("create_image") = { k + 1 }
                    /\ t[k + 1].image_id = t[k].image_id
                    /\ t[k].region = None
                    /\ t[k + 1].region = LastUnit.push_item.region
          /\ \A k \in LastOps("create_image") :
               /\ k - 1 \in LastOps("update_image") /\ ~t[k - 1].ok
               /\ ~t[k].ok =>
                    /\ k = Len(t)
                    /\ last.exc = "HTTPError"
                    /\ ~AlreadyPushed(LastUnit)
                    /\ ~calls[last.batch][Len(calls[last.batch])].ok
          /\ last.batch > 0 =>
               (last.exc = "none" <=> AlreadyPushed(LastUnit))

\* C13 witness: createImage was answered non-ok after a published image
C13_Witness ==
    /\ task = "push"
    /\ last.exc = "HTTPError"
    /\ Len(last.trace) = 4
    /\ last.trace[1].op = "publish" /\ last.trace[1].ok
    /\ last.trace[3].op = "update_image" /\ ~last.trace[3].ok
    /\ last.trace[4].op = "create_image" /\ ~last.trace[4].ok

\* the publish calls of the latest upload that ask for the groups ["all"]
LastWidened ==
    { k \in LastOps("publish") : last.trace[k].groups = { "all" } }

\* C14: an upload makes a publish call with groups ["all"] only with --ship
\* and --allow-public-images for an item whose public flag is true, or unset
\* with type hourly; an upload that returns makes it exactly then, as its
\* second and last publish call; a flag that is false is never widened.
C14_PublicWidening ==
    task = "push" /\ last.batch > 0 =>
      LET item == LastUnit.push_item
          eligible == /\ args.ship
                      /\ args.allow_public_images
                      /\ \/ item.public_image = "True"
                         \/ item.public_image = None /\ item.type = "hourly"
      IN  /\ LastWidened # {} => eligible
          /\ item.public_image = "False" => LastWidened = {}
          /\ last.exc = "none" =>
               /\ LastWidened # {} <=> eligible
               /\ Cardinality(LastOps("publish")) = IF eligible THEN 2 ELSE 1
          /\ LastWidened \subseteq { Len(last.trace) }
          /\ 1 \in LastOps("publish") /\ last.trace[1].groups = {}

\* C14 witness: an hourly item without a public flag was released publicly
C14_Witness ==
    /\ task = "push"
    /\ last.batch > 0
    /\ last.exc = "none"
    /\ LastUnit.push_item.public_image = None
    /\ LastUnit.push_item.type = "hourly"
    /\ Cardinality(LastOps("publish")) = 2
    /\ LastWidened = { Len(last.trace) }

\* the unit of batch b its worker called the cloud delete for last
LatestUnit(b) == region_data[b][calls[b][Len(calls[b])].unit]

\* C15: in delete without --dry-run, a unit whose cloud delete returned is
\* DELETED exactly if an image id or a snapshot id came back and MISSING
\* exactly if neither did, and the unit records just the two values returned;
\* every unit that has a state satisfies this with the ids it records.
C15_DeleteStateFromReturn ==
    task = "delete" /\ ~args.dry_run =>
      /\ \A b \in DOMAIN fut :
           calls[b] # << >> /\ calls[b][Len(calls[b])].ok =>
             /\ UnitState(LatestUnit(b)) = "DELETED"
                  <=> (fut[b].image_id # None \/ fut[b].snapshot_id # None)
             /\ UnitState(LatestUnit(b)) = "MISSING"
                  <=> (fut[b].image_id = None /\ fut[b].snapshot_id = None)
             /\ LatestUnit(b).image_id = fut[b].image_id
             /\ LatestUnit(b).snapshot_id = fut[b].snapshot_id
             /\ LatestUnit(b).push_item.state = UnitState(LatestUnit(b))
      /\ \A b \in DOMAIN region_data : \A i \in DOMAIN region_data[b] :
           LET d == region_data[b][i]
           IN  "state" \in DOMAIN d =>
                 /\ d.state \in { "DELETED", "MISSING" }
                 /\ d.state = "MISSING" <=> (d.image_id = None /\ d.snapshot_id = None)
                 /\ \E k \in DOMAIN calls[b] : calls[b][k].unit = i /\ calls[b][k].ok
      /\ \A r \in Range(result) :
           /\ r.state \in { "DELETED", "MISSING" }
           /\ r.state = "MISSING" <=> (r.image_id = None /\ r.snapshot_id = None)

\* C15 witness: results hold a unit whose image was missing and a unit of
\* which only the snapshot was deleted
C15_Witness ==
    /\ task = "delete"
    /\ ~args.dry_run
    /\ \E r \in Range(result) : r.state = "MISSING" /\ r.image_id = None
    /\ \E r \in Range(result) :
         r.state = "DELETED" /\ r.image_id = None /\ r.snapshot_id # None

\* the selected items the listing of the metadata service does not hold
Unlisted ==
    { i \in DOMAIN ami_push_items :
        ami_push_items[i].image_id \notin listed.image_ids }

\* C16: in delete no updateImage call is made for an image the listing does
\* not hold; the skip is no failure (a run ends early or with code 30 only
\* for another cause), and the units of such an item are submitted, deleted
\* in the cloud and reported like any other.
C16_UnlistedItemStillDeleted ==
    task = "delete" =>
      /\ \A k \in DOMAIN rhsm_calls : rhsm_calls[k].image_id \in listed.image_ids
      /\ pc = "crashed" =>
           \/ rhsm_calls # << >> /\ ~rhsm_calls[Len(rhsm_calls)].ok
           \/ RegionData(ami_push_items) = << >>
           \/ \E i \in DOMAIN ami_push_items \ Unlisted :
                ~InRhsm(Env.products, Env.provider,
                        ami_push_items[i].product, ami_push_items[i].type)
      /\ pc = "exited" /\ exit_code = ExitFailure =>
           \E b \in DOMAIN fut :
             BatchRaised(b) /\ ~calls[b][Len(calls[b])].ok
      /\ pc \in { "await", "collect", "finish", "exited" } /\ fut # << >> =>
           \A i \in Unlisted :
             ami_push_items[i].dest > 0 =>
               \E b \in DOMAIN fut :
                 /\ BatchName(b) = ami_push_items[i].name
                 /\ pc = "exited" /\ ~args.dry_run /\ fut[b].status = "done" =>
                      /\ ResultsOf(b) = region_data[b]
                      /\ \A u \in DOMAIN region_data[b] :
                           /\ UnitState(region_data[b][u]) \in { "DELETED", "MISSING" }
                           /\ \E k \in DOMAIN calls[b] :
                                calls[b][k].unit = u /\ calls[b][k].ok
                      /\ \E e \in Range(collector.push_items) :
                           e.filename = ami_push_items[i].image_id

\* C16 witness: a run ended well after it deleted an image the listing does
\* not hold and updated another one
C16_Witness ==
    /\ task = "delete"
    /\ pc = "exited"
    /\ exit_code = 0
    /\ rhsm_calls # << >>
    /\ \E i \in Unlisted :
         \E r \in Range(result) :
           /\ r.push_item.name = ami_push_items[i].name
           /\ r.state = "DELETED"

\* C17: with --dry-run delete makes no cloud delete call and no updateImage
\* call, marks no unit, hands nothing to the sink and never takes the failure
\* exit: a run that ends, ends with code 0, and a run is cut short only by a
\* listed image of an unknown product or by a selection without destinations.
C17_DryRunNoEffects ==
    task = "delete" /\ args.dry_run =>
      /\ rhsm_calls = << >>
      /\ \A b \in DOMAIN calls : calls[b] = << >>
      /\ last = NoUpload
      /\ \A b \in DOMAIN region_data : \A i \in DOMAIN region_data[b] :
           /\ "state" \notin DOMAIN region_data[b][i]
           /\ region_data[b][i].push_item.state = "PENDING"
      /\ collector = NothingCollected
      /\ ~failed
      /\ exit_code = 0
      /\ pc \notin { "collect", "finish" }
      /\ pc = "crashed" =>
           \/ RegionData(ami_push_items) = << >>
           \/ \E i \in DOMAIN ami_push_items \ Unlisted :
                ~InRhsm(Env.products, Env.provider,
                        ami_push_items[i].product, ami_push_items[i].type)

\* C17 witness: a dry run over two batches ended; one image was listed and
\* would have been updated
C17_Witness ==
    /\ task = "delete"
    /\ args.dry_run
    /\ pc = "exited"
    /\ Len(fut) = 2
    /\ \A b \in DOMAIN fut : fut[b].status = "done"
    /\ DOMAIN ami_push_items \ Unlisted # {}

\* C18: with --limit delete works on just the source items whose image id is
\* in the list: no update and no cloud delete names another image; when no
\* item matches the run ends at once, with no call to the metadata service,
\* no cloud delete and nothing handed to the sink.
C18_LimitSelects ==
    task = "delete" /\ args.limit # {} /\ pc # "start" =>
      /\ ami_push_items =
           SelectSeq(source_items, LAMBDA it : it.image_id \in args.limit)
      /\ \A k \in DOMAIN rhsm_calls : rhsm_calls[k].image_id \in args.limit
      /\ \A b \in DOMAIN region_data : \A i \in DOMAIN region_data[b] :
           region_data[b][i].push_item.image_id \in args.limit
      /\ (\A i \in DOMAIN source_items : source_items[i].image_id \notin args.limit)
           => /\ pc = "exited"
              /\ exit_code = 0
              /\ listed = NoListing
              /\ rhsm_calls = << >>
              /\ fut = << >>
              /\ calls = << >>
              /\ last = NoUpload
              /\ collector = NothingCollected

\* C18 witness: of two source items one was selected, updated and deleted
C18_Witness ==
    /\ task = "delete"
    /\ args.limit # {}
    /\ pc = "exited"
    /\ Len(source_items) = 2
    /\ Len(ami_push_items) = 1
    /\ rhsm_calls # << >>
    /\ collector.images_json # << >>

\* the first page of the listing that reports count 0
FirstZero(pages) ==
    CHOOSE k \in 1..(Len(pages) + 1) :
      /\ k = Len(pages) + 1 \/ pages[k].count = 0
      /\ \A j \in 1..(k - 1) : pages[j].count # 0

\* C19: list_image_ids asks for pages of limit 1000 from offset 0, each
\* further offset being the one before plus the count the page before
\* reported; the first page reporting count 0 is the last one asked for, and
\* the ids returned are those of the bodies of the pages before it.
C19_PagedListing ==
    listed # NoListing =>
      LET ps == rhsm.pages
          rq == listed.requests
          z == FirstZero(ps)
      IN  /\ Len(rq) = z
          /\ z <= Len(ps)
          /\ \A k \in DOMAIN rq : rq[k].limit = 1000
          /\ rq[1].offset = 0
          /\ \A k \in 1..(Len(rq) - 1) : rq[k + 1].offset = rq[k].offset + ps[k].count
          /\ listed.image_ids = UNION { Range(ps[k].body) : k \in 1..(z - 1) }

\* C19 witness: three pages were asked for at offsets 0, 2 and 3, and the ids
\* on the page that reported count 0 were left out
C19_Witness ==
    /\ Len(listed.requests) = 3
    /\ listed.requests[2].offset = 2
    /\ listed.requests[3].offset = 3
    /\ rhsm.pages[3] = Page(0, << "ami-z" >>)
    /\ listed.image_ids = { "ami-a", "ami-b", "ami-c" }

\* C20 (as claimed): no entry of images.json holds a key whose value is null.
C20_NoNullInImagesJson ==
    \A e \in Range(collector.images_json) :
      \A k \in DOMAIN e \ { "dest" } : e[k] # None

\* C20 (amended): an entry of images.json holds no attribute of the push
\* item whose value is null, but it holds the keys taken from the result
\* (ami, snapshot_id) with the value the result has, null included: both are
\* null for a unit that ended MISSING.
C20_NullOnlyInResultKeys ==
    collector.attached =>
      /\ Len(collector.images_json) = Len(result)
      /\ \A i \in DOMAIN result :
           LET e == collector.images_json[i]
               r == result[i]
           IN  /\ \A k \in DOMAIN e \ { "dest", "ami", "name", "snapshot_id" } :
                    e[k] # None /\ e[k] = r.push_item[k]
               /\ \A k \in Nullable : r.push_item[k] = None <=> k \notin DOMAIN e
               /\ "image_id" \in DOMAIN r <=> "ami" \in DOMAIN e
               /\ "ami" \in DOMAIN e => e.ami = r.image_id
               /\ "snapshot_id" \in DOMAIN r <=> "snapshot_id" \in DOMAIN e
               /\ "snapshot_id" \in DOMAIN e => e.snapshot_id = r.snapshot_id
               /\ UnitState(r) = "MISSING" => e.ami = None /\ e.snapshot_id = None

\* C20 witness: the collected entry of a unit that ended MISSING has a null
\* ami and no public_image key
C20_Witness ==
    /\ collector.attached
    /\ \E e \in Range(collector.images_json) :
         /\ e.state = "MISSING"
         /\ e.ami = None
         /\ e.snapshot_id = None
         /\ "public_image" \notin DOMAIN e

\* the latest upload ran with --ship for an item that is released publicly
LastShipsPublic ==
    /\ task = "push"
    /\ last.batch > 0
    /\ args.ship
    /\ args.allow_public_images
    /\ IsPublic(LastUnit.push_item)

\* C21: in the concurrent push with --ship and public release, an upload
\* marks its unit PUSHED exactly if the initial publish, every call of the
\* metadata sync it made up to an ok updateImage or createImage, and the
\* widening publish were answered ok; every upload starts at the initial
\* publish; an upload that raised leaves the unit pending, and its batch is
\* either queued again from its first unit or given up with its attempts
\* used up.
C21_PushedOnlyByFullUpload ==
    LastShipsPublic =>
      LET t == last.trace
          f == fut[last.batch]
          n == Len(t)
      IN  /\ t[1].op = "publish" /\ t[1].groups = {}
          /\ AlreadyPushed(LastUnit) <=> last.exc = "none"
          /\ last.exc = "none" =>
               /\ n \in { 4, 5 }
               /\ t[1].ok
               /\ t[2].op = "create_region" /\ t[2].ok
               /\ t[3].op = "update_image"
               /\ t[n - 1].op \in { "update_image", "create_image" } /\ t[n - 1].ok
               /\ n = 5 => ~t[3].ok
               /\ t[n].op = "publish" /\ t[n].groups = { "all" } /\ t[n].ok
               /\ LastUnit.image_id = PublishedImageId
          /\ last.exc # "none" =>
               /\ ~t[n].ok
               /\ \A k \in 1..(n - 1) : t[k].ok \/ t[k].op = "update_image"
               /\ "state" \notin DOMAIN LastUnit
               /\ LastUnit.push_item.state = "PENDING"
               /\ \/ f.status = "queued" /\ f.idx = 0 /\ f.attempt < args.max_retries
                  \/ f.status = "running" /\ f.idx \in 1..last.unit /\ f.attempt >= 2
                  \/ /\ f.status = "raised" /\ f.exc = last.exc
                     /\ f.attempt >= args.max_retries

\* C21 witness: a unit was pushed, widening included, by the retry that
\* followed a raised upload of it
C21_Witness ==
    /\ LastShipsPublic
    /\ last.exc = "none"
    /\ fut[last.batch].attempt = 2
    /\ calls[last.batch] = << [unit |-> 1, ok |-> FALSE], [unit |-> 1, ok |-> TRUE] >>
    /\ last.trace[Len(last.trace)].groups = { "all" }

\* the number of upload calls the worker of batch b made for unit i
Tries(b, i) == Cardinality({ k \in DOMAIN calls[b] : calls[b][k].unit = i })

\* C22 (as claimed): in the push whose workers retry by themselves, a unit
\* whose upload raised on every try was tried exactly max-retries + 1 times,
\* for every configured value from 0 on; it is then NOTPUSHED without an image
\* id, and its batch goes on with the next unit.
C22_GivenUpAfterMaxRetriesPlusOne ==
    task = "legacy" =>
      \A b \in DOMAIN region_data : \A i \in DOMAIN region_data[b] :
        UnitState(region_data[b][i]) = "NOTPUSHED" =>
          /\ Tries(b, i) = args.max_retries + 1
          /\ \A k \in DOMAIN calls[b] : calls[b][k].unit = i => ~calls[b][k].ok
          /\ region_data[b][i].image_id = None
          /\ fut[b].status \in { "running", "done" }
          /\ fut[b].status = "running" => fut[b].idx > i

\* the calls of batch b that raised
FailedCalls(b) == { k \in DOMAIN calls[b] : ~calls[b][k].ok }

\* C23: the cloud calls of a batch follow the list order: the first call is
\* for the first unit, and a call that returned is followed by the call for
\* the next unit; a call that raised ends its attempt (every raise is the last
\* call of one attempt), and the call after it belongs to the next attempt,
\* which in the concurrent push is for the same unit, the first one not
\* PUSHED, and in delete for the first unit; a batch that returned went
\* through its last unit.
C23_ListOrderStopAtRaise ==
    \A b \in DOMAIN calls :
      LET c == calls[b]
          f == fut[b]
          live == IF f.status \in { "running", "done" } THEN 1 ELSE 0
      IN  /\ c # << >> => c[1].unit = 1
          /\ \A k \in 1..(Len(c) - 1) :
               /\ c[k].ok => c[k + 1].unit = c[k].unit + 1
               /\ ~c[k].ok =>
                    c[k + 1].unit = IF task = "push" THEN c[k].unit ELSE 1
          /\ f.attempt = Cardinality(FailedCalls(b)) + live
          /\ task = "push" =>
               /\ \A i, j \in DOMAIN region_data[b] :
                    i < j /\ AlreadyPushed(region_data[b][j])
                      => AlreadyPushed(region_data[b][i])
               /\ f.status = "running" =>
                    \A i \in 1..(f.idx - 1) : AlreadyPushed(region_data[b][i])
          /\ f.status = "done" /\ ~args.dry_run =>
               /\ c # << >>
               /\ c[Len(c)].unit = Len(region_data[b])
               /\ c[Len(c)].ok

\* C23 witness: a push batch [u1, u2] was given up after u2 raised in both
\* of its attempts, u1 having been uploaded once
C23_Witness ==
    /\ task = "push"
    /\ \E b \in DOMAIN calls :
         /\ fut[b].status = "raised"
         /\ calls[b] = << [unit |-> 1, ok |-> TRUE], [unit |-> 2, ok |-> FALSE],
                          [unit |-> 2, ok |-> FALSE] >>

\* C24: the number of batches inside a worker is never above the smaller of
\* the number of batches and the number of request threads; that number is
\* the value of the environment variable of the running task, AMI_PUSH_... for
\* push and AMI_DELETE_... for delete, and 5 where the variable is unset; the
\* variable of the other task does not count.
C24_WorkersCapped ==
    LET own == IF task = "push" THEN args.environ.AMI_PUSH_REQUEST_THREADS
               ELSE args.environ.AMI_DELETE_REQUEST_THREADS
    IN  /\ own = None => args.request_threads = 5
        /\ own = "1" => args.request_threads = 1
        /\ own = "2" => args.request_threads = 2
        /\ Cardinality(Running) <= args.request_threads
        /\ Cardinality(Running) <= Len(region_data)
        /\ \A b \in DOMAIN fut :
             fut[b].status = "queued" /\ pc = "await" =>
               \/ ENABLED WorkerStart(b)
               \/ Cardinality(Running) = Min(Len(region_data), args.request_threads)

\* C24 witness: of two push batches one is running and the other waits for
\* the only thread, while the variable of delete allows two threads
C24_Witness ==
    /\ task = "push"
    /\ args.environ.AMI_PUSH_REQUEST_THREADS = "1"
    /\ args.environ.AMI_DELETE_REQUEST_THREADS = "2"
    /\ Len(fut) = 2
    /\ Cardinality(Running) = 1
    /\ \E b \in DOMAIN fut : fut[b].status = "queued"
    /\ \E b \in DOMAIN fut : calls[b] # << >>

\* the exceptions the retry policy of push is told to retry on
PushRetried == { "HTTPError", "AWSPublishError" }

\* C25: in the concurrent push a batch is queued again only after an upload
\* raised HTTPError or AWSPublishError, and such a batch is given up only
\* with its attempts used up; a batch whose upload raised anything else (a
\* KeyError for an item whose region has no accounts) is given up in its
\* first attempt. In delete a batch that raised is given up only with its
\* attempts used up. A batch given up sets the failure flag when the run
\* takes its outcome.
C25_RetriedExceptions ==
    \A b \in DOMAIN fut :
      LET f == fut[b]
          used == IF args.max_retries = 0 THEN 1 ELSE args.max_retries
      IN  /\ task = "push" /\ last.batch = b /\ f.status = "queued" =>
               last.exc \in PushRetried
          /\ task = "push" /\ last.batch = b /\ last.exc \notin (PushRetried \cup { "none" }) =>
               /\ f.status = "raised"
               /\ f.exc = last.exc
               /\ f.attempt = 1
               /\ Len(calls[b]) = 1
          /\ task = "push" /\ BatchRaised(b) =>
               \/ f.exc \in PushRetried /\ f.attempt = used
               \/ f.exc \notin PushRetried /\ f.attempt = 1
          /\ task = "delete" /\ BatchRaised(b) =>
               /\ f.attempt = used
               /\ Cardinality(FailedCalls(b)) = used
          /\ f.status = "queued" /\ f.attempt > 0 => f.attempt < args.max_retries
          /\ BatchRaised(b) /\ b \in consumed => failed
          /\ BatchRaised(b) /\ pc = "exited" => exit_code = ExitFailure

\* C25 witness: with --max-retries 2, a push batch was given up in its first
\* attempt on a KeyError and the run ended with the failure exit, while
\* another batch had been retried
C25_Witness ==
    /\ task = "push"
    /\ args.max_retries = 2
    /\ pc = "exited"
    /\ exit_code = ExitFailure
    /\ \E b, c \in DOMAIN fut :
         /\ BatchRaised(b) /\ fut[b].exc = "KeyError" /\ fut[b].attempt = 1
         /\ fut[c].attempt = 2

\* the selected items the listing holds whose product does not resolve
ListedUnresolved ==
    { i \in DOMAIN ami_push_items \ Unlisted :
        ~InRhsm(Env.products, Env.provider,
                ami_push_items[i].product, ami_push_items[i].type) }

\* C26 (as claimed): in delete, a listed image whose product does not resolve
\* gets no invisible-marking update and does not stop the task: the run goes
\* on with the remaining items and with the cloud deletion, and is cut short
\* only by an update answered non-ok or by a selection without destinations.
C26_UnresolvedProductSkipped ==
    task = "delete" /\ ListedUnresolved # {} =>
      /\ \A k \in DOMAIN rhsm_calls : \A i \in ListedUnresolved :
           rhsm_calls[k].image_id # ami_push_items[i].image_id
      /\ pc = "crashed" =>
           \/ rhsm_calls # << >> /\ ~rhsm_calls[Len(rhsm_calls)].ok
           \/ RegionData(ami_push_items) = << >>

\* the aggregated results that carry no image id
WithoutImageId == { i \in DOMAIN result : ~Truthy(result[i].image_id) }

\* C27: in the push whose workers retry by themselves, the failure flag is
\* set exactly if a result that was collected carries no image id (a unit
\* given up as NOTPUSHED); the run then exits with code 30, and it does so
\* after the results, the failed ones included, were handed to the sink; a
\* run that ends with code 0 has an image id in every result.
C27_FailureFromMissingImageId ==
    task = "legacy" /\ fut # << >> =>
      /\ \A i \in DOMAIN result :
           i \in WithoutImageId <=> UnitState(result[i]) = "NOTPUSHED"
      /\ pc \in { "await", "collect" } => ~failed /\ ~collector.attached
      /\ pc \in { "finish", "exited" } =>
           /\ failed = (WithoutImageId # {})
           /\ collector.attached
           /\ Len(collector.images_json) = Len(result)
           /\ \A i \in DOMAIN result : collector.images_json[i].ami = result[i].image_id
      /\ pc = "exited" =>
           exit_code = (IF WithoutImageId # {} THEN ExitFailure ELSE 0)
      /\ pc # "exited" => exit_code = 0

\* C27 witness: a run exited with code 30 after it collected a pushed unit
\* and a unit without an image id
C27_Witness ==
    /\ task = "legacy"
    /\ pc = "exited"
    /\ exit_code = ExitFailure
    /\ Len(collector.images_json) = 2
    /\ Cardinality(WithoutImageId) = 1

\* the submitted batches whose outcome the run has not taken yet
Unconsumed == DOMAIN fut \ consumed

\* the run can take the outcome of batch c in its next step
CanTake(c) ==
    IF task = "delete" THEN ENABLED DeleteAwait(c)
    ELSE nxt = c /\ ENABLED PushAwait

\* C28 (as claimed): in push and in delete the results are joined in the
\* order of completion: while the run waits and just one of the batches not
\* yet taken has completed, that batch is the one whose results are appended
\* next, wherever it stands in the order of submission.
C28_CompletionOrderJoin ==
    pc = "await" =>
      \A c \in Unconsumed :
        Settled(c) /\ (\A b \in Unconsumed \ { c } : ~Settled(b)) => CanTake(c)

\* the operations of the metadata service
MetadataOps == { "create_region", "update_image", "create_image" }

\* C29: without --ship an upload, in either push, makes one external call,
\* the cloud publish without the group "all", and no call to the metadata
\* service; the unit is PUSHED exactly if that one call went through, also
\* with --allow-public-images for an item that is eligible for public release.
C29_NoShipOnePublish ==
    task \in { "push", "legacy" } /\ ~args.ship /\ last.batch > 0 =>
      /\ \A k \in DOMAIN last.trace : last.trace[k].op \notin MetadataOps
      /\ Len(last.trace) = 1
      /\ last.trace[1].op = "publish"
      /\ last.trace[1].groups = {}
      /\ last.trace[1].ok <=> last.exc = "none"
      /\ last.exc = "none" =>
           /\ AlreadyPushed(LastUnit)
           /\ LastUnit.image_id = PublishedImageId
      /\ rhsm_calls = << >>

\* C29 witness: without --ship but with --allow-public-images, a run ended
\* whose latest upload was of an hourly image that carries no public flag
C29_Witness ==
    /\ ~args.ship
    /\ args.allow_public_images
    /\ last.batch > 0
    /\ last.exc = "none"
    /\ LastUnit.push_item.type = "hourly"
    /\ LastUnit.push_item.public_image = None
    /\ AlreadyPushed(LastUnit)
    /\ pc = "exited"

\* the place of the k-th call of the latest upload in the order publish,
\* createRegion, updateImage, createImage, widening publish
LastRank(k) ==
    LET c == last.trace[k]
    IN  CASE c.op = "publish" /\ c.groups = {} -> 1
          [] c.op = "create_region" -> 2
          [] c.op = "update_image" -> 3
          [] c.op = "create_image" -> 4
          [] c.op = "publish" /\ c.groups = { "all" } -> 5

\* C30: the external calls of an upload with --ship come in the order cloud
\* publish, createRegion, updateImage, createImage, widening publish, each at
\* most once and the first three without a gap; createImage follows a non-ok
\* updateImage and nothing else; the widening publish is made only for an
\* eligible item; a call that raised is the last one, so a raised publish is
\* followed by no metadata call and a raised sync by no widening publish.
C30_CallOrder ==
    task = "push" /\ args.ship /\ last.batch > 0 =>
      LET t == last.trace
          n == Len(t)
          item == LastUnit.push_item
      IN  /\ n >= 1
          /\ \A k \in 1..Min(n, 3) : LastRank(k) = k
          /\ \A k \in 1..(n - 1) : LastRank(k) < LastRank(k + 1)
          /\ \A k \in 1..n :
               /\ LastRank(k) = 4 => ~t[k - 1].ok
               /\ LastRank(k) = 5 => IsPublic(item) /\ args.allow_public_images
               /\ LastRank(k) = 3 /\ ~t[k].ok => k < n /\ LastRank(k + 1) = 4
               /\ LastRank(k) # 3 /\ ~t[k].ok => k = n /\ last.exc # "none"
          /\ ~t[1].ok => n = 1 /\ last.exc = "AWSPublishError"
          /\ last.exc = "HTTPError" => LastRank(n) \in { 2, 4 } /\ ~t[n].ok
          /\ last.exc = "none" =>
               /\ \A k \in 1..n : t[k].ok \/ LastRank(k) = 3
               /\ LastRank(n) = 5 <=> (IsPublic(item) /\ args.allow_public_images)

\* C30 witness: an upload made all five calls: updateImage was answered
\* non-ok, createImage ok, and the image was released publicly
C30_Witness ==
    /\ task = "push"
    /\ args.ship
    /\ last.batch > 0
    /\ Len(last.trace) = 5
    /\ [k \in 1..5 |-> last.trace[k].op] =
         << "publish", "create_region", "update_image", "create_image", "publish" >>
    /\ ~last.trace[3].ok
    /\ last.exc = "none"

----------------------------------------------------------------------------
\* C31: for each region at most one cloud-provider client handle is
\* constructed during a task, whatever the interleaving of the workers: the
\* count of handles built for a region never exceeds one.
C31_OneHandlePerRegion ==
    \A r \in AwsRegions : aws.handles[r] <= 1

\* C32: the product list is requested from the metadata service at most once
\* per task: once it is cached no step requests it again or replaces it, and
\* in push it is cached by the pre-flight check, before any batch exists for
\* a worker to start on.
C32_ProductsFetchedOnce ==
    [][ /\ rhsm_products'.fetches <= 1
        /\ rhsm_products.cached # << >> => rhsm_products' = rhsm_products
        /\ (task = "push" /\ fut' # << >>) =>
             /\ rhsm_products'.fetches = 1
             /\ rhsm_products'.cached = << rhsm.products >> ]_vars

\* a push of two items whose worker resolved a product after the region was
\* created: three resolutions, one request
C32_Witness ==
    /\ task = "push"
    /\ Len(checked) = 2
    /\ ProductLookups(last.trace) = 1
    /\ rhsm_products.fetches = 1

\* C33: an attempt of a batch starts only while no attempt of that batch is
\* in progress (the batch is queued: never started, or its previous attempt
\* has raised), and the records of a batch change only in a step of its one
\* running attempt, at the unit that attempt is at, leaving every other
\* batch alone.
C33_OneAttemptAtATime ==
    [][ \A b \in DOMAIN fut :
          /\ fut'[b].attempt # fut[b].attempt =>
               /\ fut[b].status = "queued"
               /\ fut[b].idx = 0
               /\ fut'[b].attempt = fut[b].attempt + 1
               /\ fut'[b].status = "running"
               /\ region_data'[b] = region_data[b]
          /\ region_data'[b] # region_data[b] =>
               /\ fut[b].status = "running"
               /\ fut'[b].attempt = fut[b].attempt
               /\ \A i \in DOMAIN region_data[b] \ { fut[b].idx } :
                    region_data'[b][i] = region_data[b][i]
               /\ \A c \in DOMAIN fut \ { b } : region_data'[c] = region_data[c] ]_vars

\* the second attempt of a batch is running, after the first attempt pushed
\* its first unit and raised at the second
C33_Witness ==
    \E b \in DOMAIN fut :
      /\ fut[b].status = "running"
      /\ fut[b].attempt = 2
      /\ Len(region_data[b]) = 2
      /\ AlreadyPushed(region_data[b][1])
      /\ ~AlreadyPushed(region_data[b][2])

\* C34: under fair scheduling every push or delete run terminates: the run
\* eventually stands at its exit (or has died of an exception before any
\* batch was submitted) with every batch settled and taken by the main
\* thread, each batch having returned or used up its attempts.
C34_RunTerminates ==
    <>( /\ pc \in { "exited", "crashed" }
        /\ pc = "crashed" => fut = << >>
        /\ consumed = DOMAIN fut
        /\ \A b \in DOMAIN fut :
             \/ fut[b].status = "done"
             \/ fut[b].status = "raised" /\ fut[b].attempt >= args.max_retries )

\* a run that exited after a batch used up its attempts and another returned
C34_Witness ==
    /\ pc = "exited"
    /\ Len(fut) = 2
    /\ consumed = DOMAIN fut
    /\ \E b \in DOMAIN fut : fut[b].status = "raised" /\ fut[b].attempt = MaxRetries
    /\ \E b \in DOMAIN fut : fut[b].status = "done"

\* the name to_rhsm_product looks up for an item: the product with "_HOURLY"
\* appended when the image type reads "hourly" in any letter case
LookedUp(item) ==
    IF item.type \in { "hourly", "Hourly", "HOURLY" }
    THEN item.product \o "_HOURLY"
    ELSE item.product

\* product k of the list matches the item on name and on provider
Matches(products, k, item) ==
    /\ products[k].name = LookedUp(item)
    /\ products[k].providerShortName = args.aws_provider_name

\* C35: to_rhsm_product returns the first product of the cached list whose
\* name is the looked-up name and whose providerShortName is the configured
\* provider, and raises MissingProductError when no product matches on both;
\* the looked-up name is the product plus "_HOURLY" for an hourly image type
\* in any letter case, the product otherwise. The metadata update of delete
\* sends the name found, and dies before any call when nothing matches.
C35_FirstMatchOnNameAndProvider ==
    LET item == ami_push_items[1]
        ps == rhsm.products
        r == ToRhsmProduct(ps, args.aws_provider_name, item.product, item.type)
        hit == \E k \in DOMAIN ps : Matches(ps, k, item)
    IN  /\ r.found <=> hit
        /\ r.looked = LookedUp(item)
        /\ r.found =>
             \E k \in DOMAIN ps :
               /\ Matches(ps, k, item)
               /\ \A j \in 1..(k - 1) : ~Matches(ps, j, item)
               /\ r.product = ps[k]
        /\ pc \in { "submit", "crashed" } =>
             /\ rhsm_products.cached = << ps >>
             /\ hit <=> rhsm_calls # << >>
             /\ ~hit => pc = "crashed"
             /\ \A c \in DOMAIN rhsm_calls : rhsm_calls[c].product_name = LookedUp(item)

\* the list holds a product of another provider ahead of two products that
\* match an image of type "Hourly", and the update was sent
C35_Witness ==
    LET item == ami_push_items[1]
        ps == rhsm.products
    IN  /\ pc = "submit"
        /\ item.type = "Hourly"
        /\ Len(ps) = 3
        /\ ps[1].name = LookedUp(item) /\ ~Matches(ps, 1, item)
        /\ Matches(ps, 2, item) /\ Matches(ps, 3, item) /\ ps[2] # ps[3]
        /\ Len(rhsm_calls) = 1
        /\ rhsm_calls[1].product_name = "RHEL_HOURLY"

\* C36: the future of the product listing or of an image-listing page fails
\* with an exception when the response has a non-success status; the future
\* of create_region, update_image or create_image then holds the response as
\* a normal result whose ok flag is false, and fails with an exception
\* exactly when the request ended with a transport error.
C36_StatusRaisesOnlyForListings ==
    \A c \in DOMAIN rhsm_calls :
      LET call == rhsm_calls[c]
          bad == call.answer.kind = "response" /\ call.answer.status_code >= 400
      IN  /\ (call.op \in { "rhsm_products", "handle_page" } /\ bad) =>
               /\ call.future.state = "exception"
               /\ call.future.exception = "HTTPError"
          /\ call.op \in { "create_region", "update_image", "create_image" } =>
               /\ bad => call.future.state = "result" /\ ~call.future.ok
               /\ call.future.state = "exception" <=> call.answer.kind = "error"
               /\ call.future.state = "exception" =>
                    call.future.exception = "ConnectionError"

\* the same client answered 500 to the product listing, whose future failed,
\* and 500 to update_image, whose future holds a response that is not ok
C36_Witness ==
    /\ Len(rhsm_calls) = 2
    /\ rhsm_calls[1].op = "rhsm_products"
    /\ rhsm_calls[1].answer = [kind |-> "response", status_code |-> 500]
    /\ rhsm_calls[1].future.state = "exception"
    /\ rhsm_calls[2].op = "update_image"
    /\ rhsm_calls[2].answer = [kind |-> "response", status_code |-> 500]
    /\ rhsm_calls[2].future.state = "result"
    /\ ~rhsm_calls[2].future.ok

\* C37: the push items of the source list are never changed: every item the
\* task holds is an item the source yielded, in its original state PENDING,
\* also after a failed pre-flight check, and the item of a work-unit record
\* differs from an item of the list in its state at most.
C37_SourceItemsKept ==
    /\ \A i \in DOMAIN source_items : source_items[i].state = "PENDING"
    /\ \A i \in DOMAIN ami_push_items : ami_push_items[i] \in Range(source_items)
    /\ \A b \in DOMAIN region_data : \A i \in DOMAIN region_data[b] :
         Evolve(region_data[b][i].push_item, "PENDING") \in Range(ami_push_items)

\* a work unit was pushed: its record holds the item in state PUSHED while
\* the list holds that item in state PENDING
C37_Witness ==
    \E b \in DOMAIN region_data : \E i \in DOMAIN region_data[b] :
      /\ region_data[b][i].push_item.state = "PUSHED"
      /\ region_data[b][i].state = "PUSHED"
      /\ \E k \in DOMAIN ami_push_items :
           /\ ami_push_items[k] = Evolve(region_data[b][i].push_item, "PENDING")
           /\ source_items[k] = ami_push_items[k]

====
